---- MODULE Spec2Model ----
(***************************************************************************)
(* Job orchestration of the vacalibration API.                             *)
(*                                                                         *)
(* Three job subsystems live side by side in the repository and each is    *)
(* modelled under its own specification:                                   *)
(*   Spec          async_calibration.JobManager (Redis job records) driven *)
(*                 by celery_app.calibration_task and the cancel endpoint; *)
(*   SpecService   calibration_service.CalibrationService (in-process      *)
(*                 jobs with websocket progress);                          *)
(*   SpecEndpoints job_endpoints (Celery task state, Redis keys and the    *)
(*                 result cache).                                          *)
(* Further specifications take one component each: SpecHappy (the task     *)
(* without cancellation, with fairness), SpecCacheKey, SpecLookup,         *)
(* SpecWebSocket and SpecMessageBuffer (websocket_handler), SpecBatch,     *)
(* SpecBatchCancel, SpecDelete and SpecClearCache (job_endpoints),         *)
(* SpecList, SpecSweep and SpecJobDelete (JobManager), SpecPubSub          *)
(* (redis_pubsub).                                                         *)
(* Optional values (Python None) are sequences of length 0 or 1.           *)
(***************************************************************************)
EXTENDS Integers, Sequences, FiniteSets, TLC

\* ---------------------------------------------------------------- bounds
\* Jobs created through start_async_calibration.
MaxJobs == 1
\* Non-empty lines the R process prints before it exits.
MaxLines == 2
\* cancel_job requests issued per job.
MaxCancels == 2

JobIds == 1..MaxJobs

\* Values the R script may print after "PROGRESS:" (any integer parses).
ReportedProgress == {-5, 40, 100, 150}

VARIABLES
    \* --- async_calibration / celery_app -------------------------------
    store,          \* Redis calibration_job:<id> -> CalibrationJob record
    job_list,       \* Redis sorted set calibration_jobs, oldest score first
    next_job,       \* number of job ids handed out so far
    wpc,            \* calibration_task: position of the task of each job
    wargs,          \* calibration_task: kwargs of the update_job in flight
    wsnap,          \* calibration_task: job read by the update_job in flight
    wnext,          \* calibration_task: position after the update_job in flight
    last_progress,  \* calibration_task: local last_progress
    output_lines,   \* calibration_task: local output_lines
    r_outcome,      \* what the Rscript process of each job left behind
    cpc,            \* cancel_job: position of the request in flight
    csnap,          \* cancel_job: job read by its update_job
    cancel_resp,    \* cancel_job: HTTP status codes returned so far
    revoked,        \* job ids whose Celery task was asked to be revoked
    \* --- calibration_service.CalibrationService ----------------------
    svc_obj,        \* the CalibrationJob objects, by job id
    active_jobs,    \* CalibrationService.active_jobs (its keys)
    job_history,    \* CalibrationService.job_history (job ids, oldest first)
    next_svc,       \* number of service job ids handed out so far
    spc,            \* run_calibration: position of the coroutine of each job
    svc_lines,      \* _monitor_r_output: lines consumed so far
    \* --- job_endpoints -----------------------------------------------
    je_next,        \* number of job ids generate_job_id handed out so far
    job_metadata,   \* Redis job_metadata:<id>
    job_request,    \* Redis job_request:<id>
    job_progress,   \* Redis job_progress:<id> (current_step of 5)
    job_logs,       \* Redis list job_logs:<id>, newest first
    job_result,     \* Redis job_result:<id>
    cache,          \* Redis calibration_result:<hash>
    celery_state,   \* AsyncResult(id).state
    celery_ret,     \* AsyncResult(id).result: "status" of the returned dict
    sent,           \* send_task calls the broker accepted, per job id
    r_runs,         \* Rscript processes started, per job id
    tpc,            \* run_calibration_task: position of the task of each job
    treq,           \* run_calibration_task: its request_data argument
    tmeta,          \* run_calibration_task: its local metadata object
    console,        \* run_calibration_task: R console lines logged so far
    jcpc,           \* job_endpoints.cancel_job: position of the request
    jcmeta,         \* job_endpoints.cancel_job: the metadata it read
    je_cancel_resp, \* job_endpoints.cancel_job: responses, in order
    \* --- job_endpoints.get_cache_key ----------------------------------
    ck_a,           \* a get_cache_key call: its request_data and the key
    ck_b,           \* another get_cache_key call, likewise
    \* --- async_calibration endpoints: what the caller received --------
    start_resp,     \* start_async_calibration: HTTP status, per job created
    status_resp,    \* get_job_status: the last request and its response
    \* --- websocket_handler.ConnectionManager (one job) ----------------
    active_connections,  \* job id -> set of websockets
    connection_metadata, \* websocket -> metadata
    message_sequence,    \* job id -> last sequence number handed out
    ws_buffer,           \* Redis list ws_buffer:<job>, newest first
    ws_pc,               \* websocket_endpoint/connect: position per socket
    ws_replay,           \* _send_buffered_messages: messages still to send
    ws_closed,           \* sockets whose client has gone (send_text raises)
    received,            \* what each client has received, in order
    events_started,      \* broadcast_to_job calls made so far
    bc_pc,               \* broadcast_to_job: position of each call
    bc_msg,              \* broadcast_to_job: its message
    bc_copy,             \* broadcast_to_job: its copy of the job's socket set
    bc_todo,             \* broadcast_to_job: sockets of the copy not yet sent to
    bc_disconnected,     \* broadcast_to_job: its local list disconnected
    mb_pc,               \* _buffer_message: position of each concurrent caller
    mb_published,        \* messages handed to _buffer_message so far
    hb_sent,             \* heartbeats sent so far
    heartbeat_tasks,     \* websocket -> heartbeat task (its keys)
    hb_cancelled,        \* sockets whose heartbeat task got cancel()
    \* --- job_endpoints: batches ---------------------------------------
    batch_metadata,      \* Redis batch_metadata:<batch id>
    batch_jobs,          \* Redis batch_jobs:<batch id>: the member job ids
    batch_resp,          \* get_batch_status: its last response
    delete_resp,         \* delete_job: its responses, in order
    clear_resp,          \* clear_cache: its calls and responses, in order
    list_resp,           \* JobManager.list_jobs: its last call and result
    \* --- JobManager: update, cleanup_old_jobs, delete_job ---------------
    uj_job,              \* update_job in flight: the changed job not yet stored
    sweep_pc,            \* cleanup_old_jobs: position of the sweep
    old_job_ids,         \* cleanup_old_jobs: the ids ZRANGEBYSCORE returned
    stale,               \* ids whose score is at or below the sweep's cutoff
    sweeps,              \* cleanup_old_jobs calls made so far
    jm_deleted,          \* ids for which JobManager.delete_job returned True
    \* --- redis_pubsub (one job) ----------------------------------------
    ps_subscribed,       \* subscribe_to_job: patterns subscribed so far
    ps_next,             \* messages handed to _publish_message so far
    ps_pc,               \* _publish_message: position of the call in flight
    ps_cur,              \* _publish_message: its message
    ps_registered,       \* messages published after subscribe_to_job returned
    ps_queue,            \* per pattern: messages received, not yet handled
    ps_handled,          \* the messages the handler was called with, in order
    ps_failed            \* messages stored by _store_failed_message

varsJM == <<store, job_list, next_job, wpc, wargs, wsnap, wnext, last_progress,
            output_lines, r_outcome, cpc, csnap, cancel_resp>>

varsSvc == <<svc_obj, active_jobs, job_history, next_svc, spc, svc_lines>>

varsJE == <<je_next, job_metadata, job_request, job_progress, job_logs,
            job_result, cache, celery_state, celery_ret, sent, r_runs, tpc,
            treq, tmeta, console, jcpc, jcmeta, je_cancel_resp>>

varsCK == <<ck_a, ck_b>>

varsAPI == <<start_resp, status_resp>>

varsWS == <<active_connections, connection_metadata, message_sequence,
            ws_buffer, ws_pc, ws_replay, ws_closed, received, events_started,
            bc_pc, bc_msg, bc_copy, bc_todo, bc_disconnected, hb_sent,
            heartbeat_tasks, hb_cancelled>>

varsMB == <<mb_pc, mb_published>>

varsSweep == <<uj_job, sweep_pc, old_job_ids, stale, sweeps, jm_deleted>>

varsPS == <<ps_subscribed, ps_next, ps_pc, ps_cur, ps_registered, ps_queue,
            ps_handled, ps_failed>>

varsRest == <<varsSweep, varsPS>>

varsOps == <<batch_metadata, batch_jobs, batch_resp, delete_resp, clear_resp,
            list_resp, varsRest>>

varsExt == <<varsCK, varsAPI, varsWS, varsMB, varsOps>>

vars == <<varsJM, revoked, varsSvc, varsJE, varsExt>>

\* ------------------------------------------------ async_calibration.py
NonTerminal == {"pending", "running"}
\* cancel_job's list of states that cannot be cancelled
Terminal == {"completed", "failed", "cancelled"}

None == <<>>
Some(x) == <<x>>

\* a CalibrationJob built with progress 100
NewJobDone ==
    [status |-> "pending", progress |-> 100, result |-> <<>>, error |-> <<>>,
     r_output |-> <<>>]

\* CalibrationJob as create_job builds it
NewJob ==
    [status |-> "pending", progress |-> 0, result |-> None, error |-> None,
     r_output |-> <<>>]

\* keyword arguments of update_job; None for an argument that is not given
Kwargs(st, pr, re, er, ln) ==
    [status |-> st, progress |-> pr, result |-> re, error |-> er,
     r_output_line |-> ln]

NoKwargs == Kwargs(None, None, None, None, None)

Min(a, b) == IF a < b THEN a ELSE b
Max(a, b) == IF a > b THEN a ELSE b

\* JobManager.get_job: the stored job, or None
get_job(j) == IF j \in DOMAIN store THEN Some(store[j]) ELSE None

\* JobManager.update_job, "Update fields": the job read, with the given
\* arguments written over it
update_fields(job, a) ==
    [status   |-> IF a.status # None THEN a.status[1] ELSE job.status,
     progress |-> IF a.progress # None
                  THEN Max(0, Min(100, a.progress[1])) ELSE job.progress,
     result   |-> IF a.result # None THEN a.result ELSE job.result,
     error    |-> IF a.error # None THEN a.error ELSE job.error,
     r_output |-> IF a.r_output_line # None
                  THEN Append(job.r_output, a.r_output_line[1])
                  ELSE job.r_output]

\* JobManager._store_job: SET of the record and ZADD of the id with the
\* newest score
store_job_record(j, job) == (j :> job) @@ store

store_job_index(j) ==
    Append(SelectSeq(job_list, LAMBDA x : x # j), j)

\* get_job_output: 404 without the job; an empty r_output is answered with
\* has_more False before the status is looked at
get_job_output(j) ==
    IF get_job(j) = None THEN [code |-> 404, r_output |-> <<>>, has_more |-> FALSE]
    ELSE IF store[j].r_output = <<>>
    THEN [code |-> 200, r_output |-> <<>>, has_more |-> FALSE]
    ELSE [code |-> 200, r_output |-> store[j].r_output,
          has_more |-> store[j].status \in {"pending", "running"}]

\* start_async_calibration: the HTTP status of the response; an exception
\* of task.delay is caught by "except Exception" and answered with 500
start_status(broker_ok) == IF broker_ok THEN 200 ELSE 500

\* start_async_calibration: create_job, then task.delay; a broker failure
\* raises after the job was stored
start_async_calibration ==
    /\ next_job < MaxJobs
    /\ LET j == next_job + 1 IN
       /\ next_job' = j
       /\ store' = store_job_record(j, NewJob)
       /\ job_list' = store_job_index(j)
       /\ \E broker_ok \in BOOLEAN :
            /\ wpc' = [wpc EXCEPT ![j] = IF broker_ok THEN "queued" ELSE "none"]
            /\ start_resp' = [start_resp EXCEPT ![j] = Some(start_status(broker_ok))]
    /\ UNCHANGED <<wargs, wsnap, wnext, last_progress, output_lines, r_outcome, cpc,
                   csnap, cancel_resp, revoked>>
    /\ UNCHANGED <<varsSvc, varsJE, varsCK, status_resp, varsWS, varsMB,
                   varsOps>>

\* Job ids a client may ask for: those create_job can hand out and one it
\* never does
LookupIds == 1..(MaxJobs + 1)

\* JobManager.get_job with the Redis error swallowed
get_job_outcome_swallowed(j, redis_ok) ==
    [raised |-> None, job |-> IF redis_ok THEN get_job(j) ELSE None]

\* JobManager.get_job when Redis may fail: an exception of r.get is turned
\* into HTTPException(500, "Failed to retrieve job: ...")
get_job_outcome(j, redis_ok) ==
    IF redis_ok THEN [raised |-> None, job |-> get_job(j)]
    ELSE [raised |-> Some(500), job |-> None]

\* get_job_status (GET /calibrate/async/{job_id}/status)
get_job_status ==
    /\ \E job_id \in LookupIds, redis_ok \in BOOLEAN :
         LET out == get_job_outcome(job_id, redis_ok) IN
         status_resp' =
           Some([job_id |-> job_id, redis_ok |-> redis_ok,
                 code |-> IF out.raised # None THEN out.raised[1]
                          ELSE IF out.job = None THEN 404 ELSE 200,
                 job |-> IF out.raised # None THEN None ELSE out.job])
    /\ UNCHANGED <<varsJM, revoked, varsSvc, varsJE, varsCK, start_resp, varsWS,
                   varsMB,
                   varsOps>>

\* ------------------------------------------------------- celery_app.py
\* A line of R output: its prefix and, for a PROGRESS line, the integer its
\* first token parses to (None when int() raises ValueError).
RLines ==
    {[prefix |-> "PROGRESS:", num |-> Some(p)] : p \in ReportedProgress}
    \cup {[prefix |-> "PROGRESS:", num |-> None],
          [prefix |-> "INFO:", num |-> None],
          [prefix |-> "ERROR:", num |-> None],
          [prefix |-> "", num |-> None]}

\* parse_r_output_line: <<line_type, progress>>
parse_r_output_line(line) ==
    IF line.prefix = "PROGRESS:"
    THEN IF line.num # None THEN <<"progress", line.num>>
         ELSE <<"output", None>>
    ELSE IF line.prefix = "INFO:" THEN <<"info", None>>
    ELSE IF line.prefix = "ERROR:" THEN <<"error", None>>
    ELSE <<"output", None>>

\* What the R process leaves behind when it exits.
\* kind "success" and "error_doc": output.json was written and the exit code
\* is 0, doc is the document's content; otherwise doc is the text of the
\* failure.
Documents == {"x42", "y7"}
ErrorMessages == {"bad input", "no data"}

ROutcomes ==
    {[kind |-> "success", doc |-> d] : d \in Documents}
    \cup {[kind |-> "error_doc", doc |-> m] : m \in ErrorMessages}
    \cup {[kind |-> "bad_json", doc |-> "Failed to parse R output"],
          [kind |-> "no_output", doc |-> "R script failed"],
          [kind |-> "raised", doc |-> "Unexpected error"]}

\* output_data.get("error", "Calibration failed") with the key ignored
error_of_default(outcome) == "Calibration failed"

\* output_data.get("error", "Calibration failed") of an error document
error_of(outcome) == outcome.doc

\* result=output_data with a fixed document
result_of_fixed(outcome) == "x42"

\* result=output_data of a success document
result_of(outcome) == outcome.doc

\* The final sync_update_job_status of calibration_task for each outcome
final_kwargs(outcome) ==
    CASE outcome.kind = "success" ->
           Kwargs(Some("completed"), Some(100), Some(result_of(outcome)),
                  None, None)
      [] outcome.kind = "error_doc" ->
           Kwargs(Some("failed"), None, None, Some(error_of(outcome)), None)
      [] OTHER ->
           Kwargs(Some("failed"), None, None, Some(outcome.doc), None)

\* sync_update_job_status, first half: update_job reads the job
begin_update(j, a, then) ==
    /\ wargs' = [wargs EXCEPT ![j] = a]
    /\ wsnap' = [wsnap EXCEPT ![j] = get_job(j)]
    /\ wnext' = [wnext EXCEPT ![j] = then]
    /\ wpc' = [wpc EXCEPT ![j] = "put"]

\* calibration_task: "Update job to running"
calibration_task_start(j) ==
    /\ wpc[j] = "queued"
    /\ begin_update(j, Kwargs(Some("running"), Some(0), None, None, None),
                    "check_r")
    /\ UNCHANGED <<store, job_list, next_job, last_progress, output_lines, r_outcome,
                   cpc, csnap, cancel_resp, revoked>>
    /\ UNCHANGED <<varsSvc, varsJE, varsExt>>

\* sync_update_job_status, second half: update_job stores the job it read
\* with the fields written over it; a job that was not found raises 404,
\* which sync_update_job_status logs and swallows
calibration_task_put(j) ==
    /\ wpc[j] = "put"
    /\ IF wsnap[j] # None
       THEN /\ store' = store_job_record(j, update_fields(wsnap[j][1], wargs[j]))
            /\ job_list' = store_job_index(j)
       ELSE UNCHANGED <<store, job_list>>
    /\ wpc' = [wpc EXCEPT ![j] = wnext[j]]
    /\ wargs' = [wargs EXCEPT ![j] = NoKwargs]
    /\ wsnap' = [wsnap EXCEPT ![j] = None]
    /\ UNCHANGED <<next_job, wnext, last_progress, output_lines, r_outcome, cpc, csnap,
                   cancel_resp, revoked>>
    /\ UNCHANGED <<varsSvc, varsJE, varsExt>>

\* calibration_task: check_r_setup
calibration_task_check_r(j) ==
    /\ wpc[j] = "check_r"
    /\ \E r_ready \in BOOLEAN :
         IF r_ready
         THEN /\ wpc' = [wpc EXCEPT ![j] = "loop"]
              /\ UNCHANGED <<wargs, wsnap, wnext>>
         ELSE begin_update(j, Kwargs(Some("failed"), None, None,
                                     Some("R not ready"), None), "done")
    /\ UNCHANGED <<store, job_list, next_job, last_progress, output_lines, r_outcome,
                   cpc, csnap, cancel_resp, revoked>>
    /\ UNCHANGED <<varsSvc, varsJE, varsExt>>

\* calibration_task: one turn of the readline loop on a non-empty line
calibration_task_line(j) ==
    /\ wpc[j] = "loop"
    /\ Len(output_lines[j]) < MaxLines
    /\ \E line \in RLines :
         LET parsed == parse_r_output_line(line) IN
         /\ output_lines' = [output_lines EXCEPT ![j] = Append(@, line)]
         /\ IF parsed[1] = "progress" /\ parsed[2] # None
            THEN IF parsed[2][1] > last_progress[j]
                 THEN /\ begin_update(j, Kwargs(None, parsed[2], None, None,
                                                Some(line)), "loop")
                      /\ last_progress' =
                            [last_progress EXCEPT ![j] = parsed[2][1]]
                 ELSE UNCHANGED <<wpc, wargs, wsnap, wnext, last_progress>>
            ELSE /\ begin_update(j, Kwargs(None, None, None, None, Some(line)),
                                 "loop")
                 /\ UNCHANGED last_progress
    /\ UNCHANGED <<store, job_list, next_job, cpc, csnap, cancel_resp, revoked,
                   r_outcome>>
    /\ UNCHANGED <<varsSvc, varsJE, varsExt>>

\* calibration_task: the process has exited; "Check results"
calibration_task_exit(j) ==
    /\ wpc[j] = "loop"
    /\ \E outcome \in ROutcomes :
         /\ r_outcome' = [r_outcome EXCEPT ![j] = Some(outcome)]
         /\ begin_update(j, final_kwargs(outcome), "done")
    /\ UNCHANGED <<store, job_list, next_job, last_progress, output_lines,
                   cpc, csnap, cancel_resp, revoked>>
    /\ UNCHANGED <<varsSvc, varsJE, varsExt>>

\* -------------------------------------- async_calibration.cancel_job
\* cancel_job: get_job and the status check
cancel_job_check(j) ==
    /\ cpc[j] = "idle"
    /\ j <= next_job
    /\ Len(cancel_resp[j]) < MaxCancels
    /\ LET job == get_job(j) IN
       IF job = None
       THEN /\ cancel_resp' = [cancel_resp EXCEPT ![j] = Append(@, 404)]
            /\ UNCHANGED cpc
       ELSE IF job[1].status \in Terminal
       THEN /\ cancel_resp' = [cancel_resp EXCEPT ![j] = Append(@, 400)]
            /\ UNCHANGED cpc
       ELSE /\ cpc' = [cpc EXCEPT ![j] = "get"]
            /\ UNCHANGED cancel_resp
    /\ UNCHANGED <<store, job_list, next_job, wpc, wargs, wsnap, wnext,
                   last_progress, output_lines, r_outcome, csnap, revoked>>
    /\ UNCHANGED <<varsSvc, varsJE, varsExt>>

\* cancel_job: update_job reads the job
cancel_job_get(j) ==
    /\ cpc[j] = "get"
    /\ csnap' = [csnap EXCEPT ![j] = get_job(j)]
    /\ cpc' = [cpc EXCEPT ![j] = "put"]
    /\ UNCHANGED <<store, job_list, next_job, wpc, wargs, wsnap, wnext,
                   last_progress, output_lines, r_outcome, cancel_resp, revoked>>
    /\ UNCHANGED <<varsSvc, varsJE, varsExt>>

\* what cancel_job passes to update_job
cancel_kwargs ==
    Kwargs(Some("cancelled"), None, None, Some("Job cancelled by user"), None)

\* cancel_job: update_job stores the job and the response is returned; the
\* Celery task is not revoked ("TODO: Terminate Celery task if possible")
cancel_job_put(j) ==
    /\ cpc[j] = "put"
    /\ IF csnap[j] # None
       THEN /\ store' = store_job_record(j, update_fields(csnap[j][1], cancel_kwargs))
            /\ job_list' = store_job_index(j)
            /\ cancel_resp' = [cancel_resp EXCEPT ![j] = Append(@, 200)]
       ELSE /\ cancel_resp' = [cancel_resp EXCEPT ![j] = Append(@, 404)]
            /\ UNCHANGED <<store, job_list>>
    /\ cpc' = [cpc EXCEPT ![j] = "idle"]
    /\ csnap' = [csnap EXCEPT ![j] = None]
    /\ UNCHANGED <<next_job, wpc, wargs, wsnap, wnext, last_progress,
                   output_lines, r_outcome, revoked>>
    /\ UNCHANGED <<varsSvc, varsJE, varsExt>>

\* ------------------------------------------------ calibration_service.py
\* Jobs created through CalibrationService.create_job.
MaxSvcJobs == 2
\* Non-empty stdout lines _monitor_r_output consumes per job.
MaxSvcLines == 2
\* _move_to_history keeps the last 100 jobs
HistoryLimit == 100

SvcIds == 1..MaxSvcJobs

\* Percentages the R script may print in "PROGRESS: <p>% - <stage>" (the
\* script the service writes starts with 5).
SvcReported == {5, 50, 100}

\* A stdout line: whether it holds "PROGRESS:" and a "%", and the number
\* float() makes of the text before the "%" (None when it raises ValueError)
SvcLineKinds ==
    {[marker |-> TRUE, pct |-> Some(p)] : p \in SvcReported}
    \cup {[marker |-> TRUE, pct |-> None], [marker |-> FALSE, pct |-> None]}

\* CalibrationJob.__init__
NewSvcJob ==
    [status |-> "pending", progress |-> 0, stage |-> "Initializing",
     error |-> None, result |-> None]

\* CalibrationService.get_job: only active jobs are found
svc_get_job(j) == IF j \in active_jobs THEN Some(svc_obj[j]) ELSE None

\* CalibrationService.get_job_status: to_dict of the job get_job finds
svc_get_job_status(j) ==
    IF svc_get_job(j) # None
    THEN Some([status |-> svc_get_job(j)[1].status,
               progress |-> svc_get_job(j)[1].progress,
               stage |-> svc_get_job(j)[1].stage,
               error |-> svc_get_job(j)[1].error,
               has_result |-> svc_get_job(j)[1].result # None])
    ELSE None

\* CalibrationService._send_updates, "Update job": progress and stage are
\* assigned as given
send_updates(job, progress, stage) ==
    [job EXCEPT !.progress = progress, !.stage = stage]

\* CalibrationService._move_to_history
move_to_history(j) ==
    IF j \in active_jobs
    THEN /\ active_jobs' = active_jobs \ {j}
         /\ job_history' =
              LET h == Append(job_history, j) IN
              IF Len(h) > HistoryLimit
              THEN SubSeq(h, Len(h) - HistoryLimit + 1, Len(h)) ELSE h
    ELSE UNCHANGED <<active_jobs, job_history>>

\* CalibrationService.create_job
svc_create_job ==
    /\ next_svc < MaxSvcJobs
    /\ LET j == next_svc + 1 IN
       /\ next_svc' = j
       /\ svc_obj' = (j :> NewSvcJob) @@ svc_obj
       /\ active_jobs' = active_jobs \cup {j}
       /\ spc' = [spc EXCEPT ![j] = "created"]
    /\ UNCHANGED <<job_history, svc_lines>>
    /\ UNCHANGED <<varsJM, revoked, varsJE, varsExt>>

\* the job object run_calibration and _send_updates write to, when the
\* job is still active
svc_write(j, job) ==
    svc_obj' = IF j \in active_jobs THEN [svc_obj EXCEPT ![j] = job] ELSE svc_obj

\* run_calibration: "Update job status" and the first _send_updates
run_calibration_begin(j) ==
    /\ spc[j] = "created"
    /\ j \in active_jobs
    /\ svc_obj' = [svc_obj EXCEPT ![j] =
                     send_updates([@ EXCEPT !.status = "running"], 0,
                                  "Preparing data")]
    /\ spc' = [spc EXCEPT ![j] = "started"]
    /\ UNCHANGED <<active_jobs, job_history, next_svc, svc_lines>>
    /\ UNCHANGED <<varsJM, revoked, varsJE, varsExt>>

\* run_calibration: _send_updates(.., 10.0, "Writing input files")
run_calibration_prepare(j) ==
    /\ spc[j] = "started"
    /\ svc_write(j, send_updates(svc_obj[j], 10, "Writing input files"))
    /\ spc' = [spc EXCEPT ![j] = "prepared"]
    /\ UNCHANGED <<active_jobs, job_history, next_svc, svc_lines>>
    /\ UNCHANGED <<varsJM, revoked, varsJE, varsExt>>

\* run_calibration: _send_updates(.., 20.0, "Executing R script") and the
\* start of the R process
run_calibration_launch(j) ==
    /\ spc[j] = "prepared"
    /\ svc_write(j, send_updates(svc_obj[j], 20, "Executing R script"))
    /\ spc' = [spc EXCEPT ![j] = "monitoring"]
    /\ UNCHANGED <<active_jobs, job_history, next_svc, svc_lines>>
    /\ UNCHANGED <<varsJM, revoked, varsJE, varsExt>>

\* _monitor_r_output: one stdout line
monitor_r_output(j) ==
    /\ spc[j] = "monitoring"
    /\ svc_lines[j] < MaxSvcLines
    /\ svc_lines' = [svc_lines EXCEPT ![j] = @ + 1]
    /\ \E line \in SvcLineKinds :
         IF line.marker /\ line.pct # None
         THEN svc_write(j, send_updates(svc_obj[j], line.pct[1], "reported"))
         ELSE UNCHANGED svc_obj
    /\ UNCHANGED <<active_jobs, job_history, next_svc, spc>>
    /\ UNCHANGED <<varsJM, revoked, varsJE, varsExt>>

\* _run_r_calibration returns the result: _send_updates(.., 90.0, ..)
run_calibration_process(j) ==
    /\ spc[j] = "monitoring"
    /\ svc_write(j, send_updates(svc_obj[j], 90, "Formatting output"))
    /\ spc' = [spc EXCEPT ![j] = "processing"]
    /\ UNCHANGED <<active_jobs, job_history, next_svc, svc_lines>>
    /\ UNCHANGED <<varsJM, revoked, varsJE, varsExt>>

\* run_calibration: the result is kept, the job is completed with progress
\* 100 and _send_updates(.., 100.0, "Complete") assigns both again
run_calibration_complete(j) ==
    /\ spc[j] = "processing"
    /\ svc_obj' = [svc_obj EXCEPT ![j] =
                     send_updates([@ EXCEPT !.result = Some("result"),
                                            !.status = "completed"],
                                  100, "Complete")]
    /\ spc' = [spc EXCEPT ![j] = "completing"]
    /\ UNCHANGED <<active_jobs, job_history, next_svc, svc_lines>>
    /\ UNCHANGED <<varsJM, revoked, varsJE, varsExt>>

\* run_calibration: the result was sent; "Move to history"
run_calibration_finish(j) ==
    /\ spc[j] = "completing"
    /\ move_to_history(j)
    /\ spc' = [spc EXCEPT ![j] = "done"]
    /\ UNCHANGED <<svc_obj, next_svc, svc_lines>>
    /\ UNCHANGED <<varsJM, revoked, varsJE, varsExt>>

\* run_calibration, "Handle errors": _run_r_calibration raised (an error
\* document, no output file) or an awaited send raised
run_calibration_except(j) ==
    /\ spc[j] \in {"started", "prepared", "monitoring", "processing",
                   "completing"}
    /\ \E msg \in {"bad input", "R script failed", "send failed"} :
         svc_obj' = [svc_obj EXCEPT ![j] =
                       [@ EXCEPT !.error = Some(msg), !.status = "failed"]]
    /\ move_to_history(j)
    /\ spc' = [spc EXCEPT ![j] = "done"]
    /\ UNCHANGED <<next_svc, svc_lines>>
    /\ UNCHANGED <<varsJM, revoked, varsJE, varsExt>>

\* -------------------------------------------------------- job_endpoints.py
\* Jobs created through create_calibration_job.
MaxJEJobs == 2
\* R console lines run_calibration_task logs per job.
MaxConsole == 1
\* job_endpoints.cancel_job requests issued in all.
MaxJECancels == 1
\* log_job_event keeps the newest MAX_LOG_ENTRIES entries
MAX_LOG_ENTRIES == 1000

JEIds == 1..MaxJEJobs

\* va_data of the default request: the dict {"insilicova": "use_example"},
\* a dict being the sequence of its (key, value) items in insertion order
VaExample == <<<<"insilicova", "use_example">>>>

\* CalibrationJobRequest.model_dump(): the semantic fields, then the others
Requests ==
    [va_data : {VaExample}, age_group : {"neonate", "child"},
     country : {"Mozambique"}, mmat_type : {"prior"}, ensemble : {TRUE},
     priority : {5}, timeout_minutes : {30}, use_cache : BOOLEAN]

\* Result documents an R run may produce (they carry a completion time and
\* posterior samples, so two runs of one request differ).
Payloads == {"run_a", "run_b"}

\* The dict keys that get serialized, in the order Python compares str
JsonKeys ==
    <<"age_group", "country", "ensemble", "insilicova", "interva",
      "mmat_type", "va_data">>

KeyRank(k) == CHOOSE i \in 1..Len(JsonKeys) : JsonKeys[i] = k

\* json.dumps(sort_keys=True): the items of a dict ordered by key
RECURSIVE sort_keys(_)
sort_keys(items) ==
    IF Len(items) <= 1 THEN items
    ELSE LET m == CHOOSE i \in 1..Len(items) :
                    \A k \in 1..Len(items) :
                        KeyRank(items[i][1]) <= KeyRank(items[k][1])
             rest == [i \in 1..(Len(items) - 1) |->
                        IF i < m THEN items[i] ELSE items[i + 1]]
         IN <<items[m]>> \o sort_keys(rest)

\* json.dumps(cache_data) without sort_keys: items in insertion order
json_dumps_unsorted(items) == items

\* json.dumps(cache_data, sort_keys=True): the keys of cache_data and of the
\* va_data dict nested in it are sorted; None (<<>>) is written as null
json_dumps(items) ==
    sort_keys([i \in 1..Len(items) |->
                 IF items[i][1] = "va_data"
                 THEN <<"va_data", sort_keys(items[i][2])>>
                 ELSE items[i]])

\* hashlib.md5(...).hexdigest(), taken to be free of collisions
md5(str) == <<"md5", str>>

\* get_cache_key: the dict cache_data, in the order it is written
key_fields(request_data) ==
    << <<"va_data", request_data.va_data>>,
       <<"age_group", request_data.age_group>>,
       <<"country", request_data.country>>,
       <<"mmat_type", request_data.mmat_type>>,
       <<"ensemble", request_data.ensemble>> >>

\* get_cache_key
get_cache_key(request_data) ==
    <<"calibration_result", md5(json_dumps(key_fields(request_data)))>>

\* f with key k set to v (Redis SET), and with key k deleted (Redis DEL)
SetKey(f, k, v) == (k :> v) @@ f
DelKey(f, k) == [x \in (DOMAIN f) \ {k} |-> f[x]]

\* log_job_event: LPUSH of the entry and LTRIM to MAX_LOG_ENTRIES
log_job_event(logs, j, level, message, component) ==
    LET old == IF j \in DOMAIN logs THEN logs[j] ELSE <<>>
        new == <<[level |-> level, message |-> message,
                  component |-> component]>> \o old
    IN SetKey(logs, j, SubSeq(new, 1, Min(Len(new), MAX_LOG_ENTRIES)))

\* get_job_metadata
get_job_metadata(j) ==
    IF j \in DOMAIN job_metadata THEN Some(job_metadata[j]) ELSE None

\* get_cached_result with the lookup lost: every request misses
get_cached_result_miss(request_data) == None

\* get_cached_result
get_cached_result(request_data) ==
    IF get_cache_key(request_data) \in DOMAIN cache
    THEN Some(cache[get_cache_key(request_data)]) ELSE None

\* check_cached_result with the use_cache test dropped
check_cached_result_always(request_data) == get_cached_result(request_data)

\* run_calibration_task, "Check for cached result": the cache is read only
\* if the request asks for it
check_cached_result(request_data) ==
    IF request_data.use_cache THEN get_cached_result(request_data) ELSE None

\* store_job_result: cache_data
cache_data(j, result) == [result |-> result, job_id |-> j]

\* should_cache with the use_cache flag ignored
should_cache_always(j, use_cache) ==
    j \in DOMAIN job_metadata /\ j \in DOMAIN job_request

\* store_job_result: whether the result is also cached by request hash
should_cache(j, use_cache) ==
    use_cache /\ j \in DOMAIN job_metadata /\ j \in DOMAIN job_request

\* store_job_result: the cache after the call
store_job_result_cache(j, result, use_cache) ==
    IF should_cache(j, use_cache)
    THEN SetKey(cache, get_cache_key(job_request[j]), cache_data(j, result))
    ELSE cache

\* hit_result naming the job served instead of the job that cached
hit_result_self(j, cached_result) ==
    [payload |-> cached_result.result.payload,
     cache_info |-> Some([source_job_id |-> j])]

\* run_calibration_task, cache hit: the cached result with cache_info added
hit_result(j, cached_result) ==
    [payload |-> cached_result.result.payload,
     cache_info |-> Some([source_job_id |-> cached_result.job_id])]

\* run_calibration_task, success: result_data
result_data(payload) == [payload |-> payload, cache_info |-> None]

\* generate_job_id handing out an id it has handed out before
generate_job_id_reused(n) == IF n = 0 THEN 1 ELSE n

\* generate_job_id: str(uuid.uuid4()), an id no earlier call returned; n is
\* the number of ids generated so far
generate_job_id(n) == n + 1

\* create_calibration_job: metadata, request, progress and log are stored,
\* then send_task submits the task under the job id; an unreachable broker
\* raises after the keys were written
create_calibration_job ==
    /\ je_next < MaxJEJobs
    /\ \E request \in Requests, broker_ok \in BOOLEAN :
         LET j == generate_job_id(je_next) IN
         /\ je_next' = je_next + 1
         /\ job_metadata' = SetKey(job_metadata, j,
                                   [started_at |-> FALSE, completed_at |-> FALSE])
         /\ job_request' = SetKey(job_request, j, request)
         /\ job_progress' = SetKey(job_progress, j, 0)
         /\ job_logs' = log_job_event(job_logs, j, "info", "Job created", "api")
         /\ IF broker_ok
            THEN /\ sent' = [sent EXCEPT ![j] = @ + 1]
                 /\ tpc' = [tpc EXCEPT ![j] = "queued"]
                 /\ treq' = SetKey(treq, j, request)
            ELSE UNCHANGED <<sent, tpc, treq>>
    /\ UNCHANGED <<job_result, cache, celery_state, celery_ret, r_runs, tmeta,
                   console, jcpc, jcmeta, je_cancel_resp, revoked>>
    /\ UNCHANGED <<varsJM, varsSvc, varsExt>>

\* run_calibration_task, "except Exception": the failure is logged, the
\* metadata is read again and completed, and a dict is returned, so the
\* Celery task itself succeeds
task_failed(j, logs, ret) ==
    /\ job_logs' = log_job_event(logs, j, "error",
                                 IF ret = "timeout" THEN "Job timed out"
                                 ELSE "Job failed", "celery_worker")
    /\ job_metadata' =
         IF get_job_metadata(j) # None
         THEN SetKey(job_metadata, j, [job_metadata[j] EXCEPT !.completed_at = TRUE])
         ELSE job_metadata
    /\ celery_state' = [celery_state EXCEPT ![j] = "SUCCESS"]
    /\ celery_ret' = [celery_ret EXCEPT ![j] = Some(ret)]
    /\ tpc' = [tpc EXCEPT ![j] = "done"]

\* run_calibration_task: "Update job status to running"; a worker that
\* tracks started tasks reports STARTED
task_start(j) ==
    /\ tpc[j] = "queued"
    /\ IF get_job_metadata(j) = None
       THEN /\ task_failed(j, job_logs, "failed")
            /\ UNCHANGED <<job_progress, tmeta>>
       ELSE /\ \E track_started \in BOOLEAN :
                 celery_state' = [celery_state EXCEPT ![j] =
                                    IF track_started THEN "STARTED" ELSE @]
            /\ tmeta' = [tmeta EXCEPT ![j] =
                           [job_metadata[j] EXCEPT !.started_at = TRUE]]
            /\ job_metadata' = SetKey(job_metadata, j, tmeta'[j])
            /\ job_logs' = log_job_event(job_logs, j, "info",
                                         "Starting calibration job", "celery_worker")
            /\ job_progress' = SetKey(job_progress, j, 1)
            /\ tpc' = [tpc EXCEPT ![j] = "cache_check"]
            /\ UNCHANGED celery_ret
    /\ UNCHANGED <<je_next, job_request, job_result, cache, sent, r_runs, treq,
                   console, jcpc, jcmeta, je_cancel_resp, revoked>>
    /\ UNCHANGED <<varsJM, varsSvc, varsExt>>

\* run_calibration_task: "Check for cached result"; on a hit the cached
\* result is stored as the job's own (not cached again) and returned
task_cache_check(j) ==
    /\ tpc[j] = "cache_check"
    /\ LET cached_result == check_cached_result(treq[j])
       IN IF cached_result # None
          THEN /\ job_logs' = log_job_event(job_logs, j, "info",
                                            "Using cached result", "cache")
               /\ job_progress' = SetKey(job_progress, j, 5)
               /\ tmeta' = [tmeta EXCEPT ![j].completed_at = TRUE]
               /\ job_metadata' = SetKey(job_metadata, j, tmeta'[j])
               /\ job_result' = SetKey(job_result, j,
                                       hit_result(j, cached_result[1]))
               /\ cache' = store_job_result_cache(
                              j, hit_result(j, cached_result[1]), FALSE)
               /\ celery_state' = [celery_state EXCEPT ![j] = "SUCCESS"]
               /\ celery_ret' = [celery_ret EXCEPT ![j] = Some("success")]
               /\ tpc' = [tpc EXCEPT ![j] = "done"]
          ELSE /\ job_progress' = SetKey(job_progress, j, 2)
               /\ job_logs' = log_job_event(job_logs, j, "info",
                                 "Preparing R execution environment", "r_processor")
               /\ tpc' = [tpc EXCEPT ![j] = "prepared"]
               /\ UNCHANGED <<tmeta, job_metadata, job_result, cache,
                              celery_state, celery_ret>>
    /\ UNCHANGED <<je_next, job_request, sent, r_runs, treq, console, jcpc,
                   jcmeta, je_cancel_resp, revoked>>
    /\ UNCHANGED <<varsJM, varsSvc, varsExt>>

\* run_calibration_task: the input is written and Rscript is started
task_launch(j) ==
    /\ tpc[j] = "prepared"
    /\ job_progress' = SetKey(job_progress, j, 3)
    /\ job_logs' = log_job_event(job_logs, j, "info",
                                 "Executing R calibration script", "r_processor")
    /\ r_runs' = [r_runs EXCEPT ![j] = @ + 1]
    /\ tpc' = [tpc EXCEPT ![j] = "r_running"]
    /\ UNCHANGED <<je_next, job_metadata, job_request, job_result, cache,
                   celery_state, celery_ret, sent, treq, tmeta, console, jcpc,
                   jcmeta, je_cancel_resp, revoked>>
    /\ UNCHANGED <<varsJM, varsSvc, varsExt>>

\* run_calibration_task: one non-empty line of R output is logged
task_console_line(j) ==
    /\ tpc[j] = "r_running"
    /\ console[j] < MaxConsole
    /\ console' = [console EXCEPT ![j] = @ + 1]
    /\ job_logs' = log_job_event(job_logs, j, "info", "R output", "R_console")
    /\ UNCHANGED <<je_next, job_metadata, job_request, job_progress, job_result,
                   cache, celery_state, celery_ret, sent, r_runs, tpc, treq,
                   tmeta, jcpc, jcmeta, je_cancel_resp, revoked>>
    /\ UNCHANGED <<varsJM, varsSvc, varsExt>>

\* What an R run leaves behind in job_endpoints.
JEOutcomes == {"success", "error_doc", "no_output", "timeout"}

\* run_calibration_task: the process has ended; "Process output"
task_exit(j) ==
    /\ tpc[j] = "r_running"
    /\ \E outcome \in JEOutcomes, payload \in Payloads :
         IF outcome = "timeout"
         THEN /\ task_failed(j, job_logs, "timeout")
              /\ UNCHANGED <<job_progress, job_result, cache, tmeta>>
         ELSE IF outcome = "success"
         THEN /\ job_logs' = log_job_event(job_logs, j, "info",
                                "Calibration completed successfully", "r_processor")
              /\ job_result' = SetKey(job_result, j, result_data(payload))
              /\ cache' = store_job_result_cache(j, result_data(payload),
                                                 treq[j].use_cache)
              /\ job_progress' = SetKey(job_progress, j, 5)
              /\ tmeta' = [tmeta EXCEPT ![j].completed_at = TRUE]
              /\ job_metadata' = SetKey(job_metadata, j, tmeta'[j])
              /\ celery_state' = [celery_state EXCEPT ![j] = "SUCCESS"]
              /\ celery_ret' = [celery_ret EXCEPT ![j] = Some("success")]
              /\ tpc' = [tpc EXCEPT ![j] = "done"]
         ELSE /\ task_failed(j,
                    log_job_event(job_logs, j, "error",
                                  IF outcome = "error_doc"
                                  THEN "R calibration failed"
                                  ELSE "R script failed", "r_processor"),
                    "failed")
              /\ job_progress' = SetKey(job_progress, j, 4)
              /\ UNCHANGED <<job_result, cache, tmeta>>
    /\ UNCHANGED <<je_next, job_request, sent, r_runs, treq, console, jcpc,
                   jcmeta, je_cancel_resp, revoked>>
    /\ UNCHANGED <<varsJM, varsSvc, varsExt>>

\* Celery: a worker that has received the revocation discards the queued
\* task or terminates the running one
task_revoked(j) ==
    /\ j \in revoked
    /\ tpc[j] \in {"queued", "cache_check", "prepared", "r_running"}
    /\ celery_state' = [celery_state EXCEPT ![j] = "REVOKED"]
    /\ tpc' = [tpc EXCEPT ![j] = "done"]
    /\ UNCHANGED <<je_next, job_metadata, job_request, job_progress, job_logs,
                   job_result, cache, celery_ret, sent, r_runs, treq, tmeta,
                   console, jcpc, jcmeta, je_cancel_resp, revoked>>
    /\ UNCHANGED <<varsJM, varsSvc, varsExt>>

\* job_endpoints.cancel_job: the metadata is read, the task is revoked and
\* the cancellation is logged
je_cancel_job_revoke(j) ==
    /\ jcpc[j] = "idle"
    /\ j <= je_next
    /\ Len(je_cancel_resp) + Cardinality({i \in JEIds : jcpc[i] # "idle"})
         < MaxJECancels
    /\ IF get_job_metadata(j) = None
       THEN /\ je_cancel_resp' =
                 Append(je_cancel_resp, [job_id |-> j, code |-> 404])
            /\ UNCHANGED <<revoked, job_logs, jcmeta, jcpc>>
       ELSE /\ revoked' = revoked \cup {j}
            /\ job_logs' = log_job_event(job_logs, j, "warning",
                                         "Job cancelled by user", "api")
            /\ jcmeta' = [jcmeta EXCEPT ![j] = get_job_metadata(j)]
            /\ jcpc' = [jcpc EXCEPT ![j] = "store"]
            /\ UNCHANGED je_cancel_resp
    /\ UNCHANGED <<je_next, job_metadata, job_request, job_progress, job_result,
                   cache, celery_state, celery_ret, sent, r_runs, tpc, treq,
                   tmeta, console>>
    /\ UNCHANGED <<varsJM, varsSvc, varsExt>>

\* job_endpoints.cancel_job: "Update metadata" and the response
je_cancel_job_store(j) ==
    /\ jcpc[j] = "store"
    /\ job_metadata' = SetKey(job_metadata, j,
                              [jcmeta[j][1] EXCEPT !.completed_at = TRUE])
    /\ je_cancel_resp' = Append(je_cancel_resp, [job_id |-> j, code |-> 200])
    /\ jcpc' = [jcpc EXCEPT ![j] = "idle"]
    /\ jcmeta' = [jcmeta EXCEPT ![j] = None]
    /\ UNCHANGED <<je_next, job_request, job_progress, job_logs, job_result,
                   cache, celery_state, celery_ret, sent, r_runs, tpc, treq,
                   tmeta, console, revoked>>
    /\ UNCHANGED <<varsJM, varsSvc, varsExt>>

\* _map_celery_status: Celery task state to JobStatus, used by the batch
\* roll-up. No state maps to JobStatus.TIMEOUT.
map_celery_status(state) ==
    CASE state = "PENDING" -> "pending"
      [] state = "STARTED" -> "running"
      [] state = "SUCCESS" -> "success"
      [] state = "FAILURE" -> "failed"
      [] state = "REVOKED" -> "cancelled"
      [] state = "RETRY"   -> "running"
      [] OTHER -> "pending"

\* get_job_status, "Determine job status": the if/elif chain of the status
\* query; RETRY falls into the else branch
job_status_of(state) ==
    IF state = "PENDING" THEN "pending"
    ELSE IF state = "STARTED" THEN "running"
    ELSE IF state = "SUCCESS" THEN "success"
    ELSE IF state = "FAILURE" THEN "failed"
    ELSE IF state = "REVOKED" THEN "cancelled"
    ELSE "pending"

\* list_celery_jobs_simple, "Map Celery status to our status": the chain
\* of the listing, whose status filter compares against these strings
list_job_status(state) ==
    IF state = "PENDING" THEN "pending"
    ELSE IF state = "STARTED" THEN "running"
    ELSE IF state = "SUCCESS" THEN "completed"
    ELSE IF state = "FAILURE" THEN "failed"
    ELSE IF state = "REVOKED" THEN "cancelled"
    ELSE "pending"

\* job_endpoints.get_job_status: what a status query answers for job j in
\* the current state; error_details is filled only for a Celery FAILURE
je_get_job_status(j) ==
    IF get_job_metadata(j) = None
    THEN [code |-> 404, status |-> None, error_details |-> None]
    ELSE [code |-> 200,
          status |-> Some(job_status_of(celery_state[j])),
          error_details |->
            IF job_status_of(celery_state[j]) = "failed"
               /\ celery_state[j] = "FAILURE"
            THEN Some("Job failed") ELSE None]

\* Redis: the TTL (CACHE_TTL) of a cache entry runs out
cache_expire ==
    /\ \E k \in DOMAIN cache : cache' = DelKey(cache, k)
    /\ UNCHANGED <<je_next, job_metadata, job_request, job_progress, job_logs,
                   job_result, celery_state, celery_ret, sent, r_runs, tpc,
                   treq, tmeta, console, jcpc, jcmeta, je_cancel_resp, revoked>>
    /\ UNCHANGED <<varsJM, varsSvc, varsExt>>

\* ------------------------------------------ job_endpoints.delete_job
MaxDeletes == 1

\* the keys of a job that exist, among those delete_job deletes
deleted_count(j) ==
    Cardinality({f \in {"metadata", "request", "progress", "logs", "result"} :
                   \/ f = "metadata" /\ j \in DOMAIN job_metadata
                   \/ f = "request" /\ j \in DOMAIN job_request
                   \/ f = "progress" /\ j \in DOMAIN job_progress
                   \/ f = "logs" /\ j \in DOMAIN job_logs
                   \/ f = "result" /\ j \in DOMAIN job_result})

\* delete_job: job_logs:<id> is deleted and then "Job deleted by user" is
\* logged, which pushes onto the list again
logs_after_delete(logs, j) ==
    log_job_event(DelKey(logs, j), j, "info", "Job deleted by user", "api")

\* delete_job: 404 without metadata; otherwise a pending or started task
\* is revoked, the five keys are deleted and the deletion is logged
je_delete_job(j) ==
    /\ j <= je_next
    /\ Len(delete_resp) < MaxDeletes
    /\ IF get_job_metadata(j) = None
       THEN /\ delete_resp' = Append(delete_resp, [job_id |-> j, code |-> 404,
                                                   deleted_keys |-> 0])
            /\ UNCHANGED <<revoked, job_metadata, job_request, job_progress,
                           job_logs, job_result>>
       ELSE /\ revoked' = IF celery_state[j] \in {"PENDING", "STARTED"}
                          THEN revoked \cup {j} ELSE revoked
            /\ job_metadata' = DelKey(job_metadata, j)
            /\ job_request' = DelKey(job_request, j)
            /\ job_progress' = DelKey(job_progress, j)
            /\ job_result' = DelKey(job_result, j)
            /\ job_logs' = logs_after_delete(job_logs, j)
            /\ delete_resp' = Append(delete_resp,
                                     [job_id |-> j, code |-> 200,
                                      deleted_keys |-> deleted_count(j)])
    /\ UNCHANGED <<je_next, cache, celery_state, celery_ret, sent, r_runs, tpc,
                   treq, tmeta, console, jcpc, jcmeta, je_cancel_resp>>
    /\ UNCHANGED <<batch_metadata, batch_jobs, batch_resp, clear_resp,
                   list_resp>>
    /\ UNCHANGED varsRest
    /\ UNCHANGED <<varsJM, varsSvc, varsCK, varsAPI, varsWS, varsMB>>

\* ----------------------------------------- job_endpoints.clear_cache
MaxClears == 1

\* The filters a client may pass to DELETE /cache/clear
CacheFilters ==
    [age_group : {None, Some("neonate"), Some("child")},
     country : {None, Some("Mozambique"), Some("Kenya")}]

\* clear_cache, should_clear: "For now, clear all if any filter is
\* specified"
should_clear(filter, key) == TRUE

\* clear_cache: every calibration_result:* key for which should_clear
\* holds is deleted and counted
je_clear_cache ==
    /\ Len(clear_resp) < MaxClears
    /\ \E filter \in CacheFilters :
         LET cleared == {k \in DOMAIN cache : should_clear(filter, k)} IN
         /\ cache' = [k \in (DOMAIN cache) \ cleared |-> cache[k]]
         /\ clear_resp' = Append(clear_resp,
                                 [filter |-> filter,
                                  cleared_results |-> Cardinality(cleared)])
    /\ UNCHANGED <<je_next, job_metadata, job_request, job_progress, job_logs,
                   job_result, celery_state, celery_ret, sent, r_runs, tpc,
                   treq, tmeta, console, jcpc, jcmeta, je_cancel_resp, revoked>>
    /\ UNCHANGED <<batch_metadata, batch_jobs, batch_resp, delete_resp,
                   list_resp>>
    /\ UNCHANGED varsRest
    /\ UNCHANGED <<varsJM, varsSvc, varsCK, varsAPI, varsWS, varsMB>>

\* --------------------------------------------- job_endpoints: batches
\* The batch id generate_batch_id hands out
BatchId == 1

\* Requests of the members of a batch
BatchRequests == {r \in Requests : r.age_group = "neonate"}

\* f with every key of ks set to its value in g
SetKeys(f, ks, g) ==
    [x \in (DOMAIN f) \cup ks |-> IF x \in ks THEN g[x] ELSE f[x]]

\* create_batch_jobs: each member is created and dispatched as
\* create_calibration_job does, then the batch metadata and the list of
\* member ids are stored
create_batch_jobs ==
    /\ BatchId \notin DOMAIN batch_metadata
    /\ \E n \in 1..MaxJEJobs, fail_fast \in BOOLEAN :
         /\ je_next + n <= MaxJEJobs
         /\ \E reqs \in [1..n -> BatchRequests] :
              LET job_ids == [i \in 1..n |-> generate_job_id(je_next + i - 1)]
                  ids == {job_ids[i] : i \in 1..n}
                  idx(j) == CHOOSE i \in 1..n : job_ids[i] = j
              IN /\ je_next' = je_next + n
                 /\ job_metadata' =
                      SetKeys(job_metadata, ids,
                              [j \in ids |-> [started_at |-> FALSE,
                                              completed_at |-> FALSE]])
                 /\ job_request' =
                      SetKeys(job_request, ids, [j \in ids |-> reqs[idx(j)]])
                 /\ job_progress' = SetKeys(job_progress, ids, [j \in ids |-> 0])
                 /\ job_logs' =
                      SetKeys(job_logs, ids,
                              [j \in ids |->
                                 log_job_event(job_logs, j, "info",
                                     "Job created as part of batch",
                                     "batch_api")[j]])
                 /\ sent' = [j \in JEIds |-> IF j \in ids THEN sent[j] + 1
                                             ELSE sent[j]]
                 /\ tpc' = [j \in JEIds |-> IF j \in ids THEN "queued"
                                            ELSE tpc[j]]
                 /\ treq' = SetKeys(treq, ids, [j \in ids |-> reqs[idx(j)]])
                 /\ batch_metadata' =
                      SetKey(batch_metadata, BatchId,
                             [total_jobs |-> n, fail_fast |-> fail_fast])
                 /\ batch_jobs' = SetKey(batch_jobs, BatchId, job_ids)
    /\ UNCHANGED <<job_result, cache, celery_state, celery_ret, r_runs, tmeta,
                   console, jcpc, jcmeta, je_cancel_resp, revoked, batch_resp,
                   delete_resp, clear_resp, list_resp>>
    /\ UNCHANGED varsRest
    /\ UNCHANGED <<varsJM, varsSvc, varsCK, varsAPI, varsWS, varsMB>>

\* Celery: the worker process that runs the task is lost (killed, out of
\* memory); the result backend records FAILURE with the exception
task_worker_lost(j) ==
    /\ tpc[j] \in {"cache_check", "prepared", "r_running"}
    /\ celery_state' = [celery_state EXCEPT ![j] = "FAILURE"]
    /\ celery_ret' = [celery_ret EXCEPT ![j] = Some("WorkerLostError")]
    /\ tpc' = [tpc EXCEPT ![j] = "done"]
    /\ UNCHANGED <<je_next, job_metadata, job_request, job_progress, job_logs,
                   job_result, cache, sent, r_runs, treq, tmeta, console, jcpc,
                   jcmeta, je_cancel_resp, revoked>>
    /\ UNCHANGED <<varsJM, varsSvc, varsExt>>

\* get_batch_status, "Check status of each job": the status of each member
member_statuses(job_ids) ==
    [i \in 1..Len(job_ids) |-> map_celery_status(celery_state[job_ids[i]])]

\* the counter a member status is added to
counted_as(status) ==
    IF status = "success" THEN "completed"
    ELSE IF status = "failed" THEN "failed"
    ELSE IF status = "running" THEN "running"
    ELSE "pending"

count_jobs(statuses, counter) ==
    Cardinality({i \in DOMAIN statuses : counted_as(statuses[i]) = counter})

\* "Determine overall batch status" with the running test first
batch_status_running_first(c, f, r, pe, total, fail_fast) ==
    IF c = total THEN "completed"
    ELSE IF r > 0 THEN "running"
    ELSE IF f > 0 /\ fail_fast THEN "failed"
    ELSE IF pe > 0 THEN "pending"
    ELSE "partial"

\* get_batch_status, "Determine overall batch status"
batch_status(c, f, r, pe, total, fail_fast) ==
    IF c = total THEN "completed"
    ELSE IF f > 0 /\ fail_fast THEN "failed"
    ELSE IF r > 0 THEN "running"
    ELSE IF pe > 0 THEN "pending"
    ELSE "partial"

\* the response of get_batch_status for the stored batch keys
batch_response(meta, job_ids) ==
    LET statuses == member_statuses(job_ids)
        c == count_jobs(statuses, "completed")
        f == count_jobs(statuses, "failed")
        r == count_jobs(statuses, "running")
        pe == count_jobs(statuses, "pending")
    IN [code |-> 200, total_jobs |-> Len(job_ids), completed_jobs |-> c,
        failed_jobs |-> f, running_jobs |-> r, pending_jobs |-> pe,
        batch_status |-> batch_status(c, f, r, pe, Len(job_ids),
                                      meta.fail_fast),
        job_statuses |-> statuses]

\* get_batch_status (GET of a batch): 404 without the batch keys
get_batch_status ==
    /\ batch_resp' =
         IF BatchId \notin DOMAIN batch_metadata \/ BatchId \notin DOMAIN batch_jobs
         THEN Some([code |-> 404])
         ELSE Some(batch_response(batch_metadata[BatchId], batch_jobs[BatchId]))
    /\ UNCHANGED <<batch_metadata, batch_jobs, delete_resp, clear_resp,
                   list_resp>>
    /\ UNCHANGED varsRest
    /\ UNCHANGED <<varsJM, revoked, varsSvc, varsJE, varsCK, varsAPI, varsWS,
                   varsMB>>

InitOps ==
    /\ batch_metadata = <<>>
    /\ batch_jobs = <<>>
    /\ batch_resp = None
    /\ delete_resp = <<>>
    /\ clear_resp = <<>>
    /\ list_resp = None

\* ----------------------------------------------- get_cache_key calls
\* va_data dicts: absent (None), one key, and one two-key dict in both
\* insertion orders
VaDatas ==
    {None, VaExample,
     <<<<"insilicova", "use_example">>, <<"interva", "use_example">>>>,
     <<<<"interva", "use_example">>, <<"insilicova", "use_example">>>>}

\* Request dicts handed to get_cache_key
KeyRequests ==
    [va_data : VaDatas, age_group : {"neonate", "child"},
     country : {"Mozambique", "Kenya"}, mmat_type : {"prior", "fixed"},
     ensemble : BOOLEAN, priority : {1, 5}, timeout_minutes : {30, 60},
     use_cache : BOOLEAN]

\* get_cache_key is called on a request
get_cache_key_first ==
    /\ ck_a = None
    /\ \E request_data \in KeyRequests :
         ck_a' = Some([request |-> request_data,
                       key |-> get_cache_key(request_data)])
    /\ UNCHANGED ck_b
    /\ UNCHANGED <<varsJM, revoked, varsSvc, varsJE, varsAPI, varsWS, varsMB,
                   varsOps>>

\* get_cache_key is called on a second request
get_cache_key_second ==
    /\ ck_a # None /\ ck_b = None
    /\ \E request_data \in KeyRequests :
         ck_b' = Some([request |-> request_data,
                       key |-> get_cache_key(request_data)])
    /\ UNCHANGED ck_a
    /\ UNCHANGED <<varsJM, revoked, varsSvc, varsJE, varsAPI, varsWS, varsMB,
                   varsOps>>

\* --------------------------------- websocket_handler.ConnectionManager
\* Websockets that connect to the job, numbered in the order they are accepted.
MaxSockets == 2
\* broadcast_to_job calls for the job.
MaxEvents == 2
\* Heartbeat messages sent in all.
MaxHeartbeats == 1
\* _buffer_message: ltrim(key, 0, 99) keeps the newest 100 messages
BufferLimit == 100

Sockets == 1..MaxSockets
Events == 1..MaxEvents

\* The job all sockets and broadcasts of the model belong to
WsJob == 1

\* WebSocketMessage: its type, the event it carries (0 for the per-socket
\* connection and heartbeat messages) and its sequence field
Message(type, id, sequence) ==
    [type |-> type, id |-> id, sequence |-> sequence]

\* The three dicts of the manager that connect, disconnect and send_message
\* change together
ManagerState ==
    [ac |-> active_connections, seq |-> message_sequence,
     meta |-> connection_metadata, hb |-> heartbeat_tasks,
     cancelled |-> hb_cancelled]

\* Redis LPUSH and LTRIM on a list held newest first
lpush(list, x) == <<x>> \o list
ltrim_noop(list, start, stop) == list

ltrim(list, start, stop) ==
    SubSeq(list, start + 1, Min(Len(list), stop + 1))

\* disconnect without "Cancel heartbeat task"
disconnect_keep_task(st, ws) ==
    IF ws \notin DOMAIN st.meta THEN st
    ELSE LET left == IF WsJob \in DOMAIN st.ac
                     THEN st.ac[WsJob] \ {ws} ELSE {}
             emptied == WsJob \in DOMAIN st.ac /\ left = {}
         IN [ac |-> IF WsJob \notin DOMAIN st.ac THEN st.ac
                    ELSE IF emptied THEN DelKey(st.ac, WsJob)
                    ELSE SetKey(st.ac, WsJob, left),
             seq |-> IF emptied THEN DelKey(st.seq, WsJob) ELSE st.seq,
             meta |-> DelKey(st.meta, ws),
             hb |-> st.hb,
             cancelled |-> st.cancelled]

\* ConnectionManager.disconnect
disconnect(st, ws) ==
    IF ws \notin DOMAIN st.meta THEN st
    ELSE LET left == IF WsJob \in DOMAIN st.ac
                     THEN st.ac[WsJob] \ {ws} ELSE {}
             emptied == WsJob \in DOMAIN st.ac /\ left = {}
         IN [ac |-> IF WsJob \notin DOMAIN st.ac THEN st.ac
                    ELSE IF emptied THEN DelKey(st.ac, WsJob)
                    ELSE SetKey(st.ac, WsJob, left),
             seq |-> IF emptied THEN DelKey(st.seq, WsJob) ELSE st.seq,
             meta |-> DelKey(st.meta, ws),
             hb |-> st.hb \ {ws},
             cancelled |-> IF ws \in st.hb THEN st.cancelled \cup {ws}
                           ELSE st.cancelled]

\* broadcast_to_job, "Clean up disconnected sockets"
RECURSIVE disconnect_all(_, _)
disconnect_all(st, list) ==
    IF list = <<>> THEN st
    ELSE disconnect_all(disconnect(st, Head(list)), Tail(list))

\* ConnectionManager.send_message: the job's counter is advanced, the
\* message takes its value, and a failing send_text disconnects the socket
send_message(st, ws, type) ==
    LET known == WsJob \in DOMAIN st.seq
        seq1 == IF known THEN SetKey(st.seq, WsJob, st.seq[WsJob] + 1)
                ELSE st.seq
        message == Message(type, 0, IF known THEN Some(seq1[WsJob]) ELSE None)
        st1 == [st EXCEPT !.seq = seq1]
    IN IF ws \notin ws_closed
       THEN [st |-> st1, delivered |-> <<message>>]
       ELSE [st |-> disconnect(st1, ws), delivered |-> <<>>]

\* The manager's dicts take the values of st
set_manager(st) ==
    /\ active_connections' = st.ac
    /\ message_sequence' = st.seq
    /\ connection_metadata' = st.meta
    /\ heartbeat_tasks' = st.hb
    /\ hb_cancelled' = st.cancelled

\* websocket_endpoint: connect, "await websocket.accept()"
ws_accept(ws) ==
    /\ ws_pc[ws] = "new"
    /\ IF ws = 1 THEN TRUE ELSE ws_pc[ws - 1] # "new"
    /\ ws_pc' = [ws_pc EXCEPT ![ws] = "accepted"]
    /\ UNCHANGED <<active_connections, connection_metadata, message_sequence,
                   ws_buffer, ws_replay, ws_closed, received, events_started,
                   bc_pc, bc_msg, bc_todo, bc_copy, bc_disconnected, hb_sent,
                   heartbeat_tasks, hb_cancelled>>
    /\ UNCHANGED <<varsJM, revoked, varsSvc, varsJE, varsCK, varsAPI, varsMB,
                   varsOps>>

\* connect: the socket is registered and the connection message is sent
ws_register(ws) ==
    /\ ws_pc[ws] = "accepted"
    /\ LET fresh == WsJob \notin DOMAIN active_connections
           st0 == [ac |-> SetKey(active_connections, WsJob,
                                 (IF fresh THEN {}
                                  ELSE active_connections[WsJob]) \cup {ws}),
                   seq |-> IF fresh THEN SetKey(message_sequence, WsJob, 0)
                           ELSE message_sequence,
                   meta |-> SetKey(connection_metadata, ws,
                                   [connected_at |-> events_started]),
                   hb |-> heartbeat_tasks \cup {ws},
                   cancelled |-> hb_cancelled]
           sent_ == send_message(st0, ws, "connection")
       IN /\ set_manager(sent_.st)
          /\ received' = [received EXCEPT ![ws] = @ \o sent_.delivered]
    /\ ws_pc' = [ws_pc EXCEPT ![ws] = "greeted"]
    /\ UNCHANGED <<ws_buffer, ws_replay, ws_closed, events_started, bc_pc,
                   bc_msg, bc_todo, bc_copy, bc_disconnected, hb_sent>>
    /\ UNCHANGED <<varsJM, revoked, varsSvc, varsJE, varsCK, varsAPI, varsMB,
                   varsOps>>

\* List reversed
RECURSIVE reversed(_)
reversed(list) ==
    IF list = <<>> THEN <<>> ELSE Append(reversed(Tail(list)), Head(list))

\* _send_buffered_messages: lrange(key, 0, -1), oldest first after reversed
ws_lrange(ws) ==
    /\ ws_pc[ws] = "greeted"
    /\ ws_replay' = [ws_replay EXCEPT ![ws] = reversed(ws_buffer)]
    /\ ws_pc' = [ws_pc EXCEPT ![ws] =
                   IF ws_buffer = <<>> THEN "connected" ELSE "replaying"]
    /\ UNCHANGED <<active_connections, connection_metadata, message_sequence,
                   ws_buffer, ws_closed, received, events_started, bc_pc,
                   bc_msg, bc_todo, bc_copy, bc_disconnected, hb_sent,
                   heartbeat_tasks, hb_cancelled>>
    /\ UNCHANGED <<varsJM, revoked, varsSvc, varsJE, varsCK, varsAPI, varsMB,
                   varsOps>>

\* _send_buffered_messages: one buffered message is sent as it was stored;
\* a failing send is only logged
ws_replay_send(ws) ==
    /\ ws_pc[ws] = "replaying"
    /\ received' = [received EXCEPT ![ws] =
                      IF ws \in ws_closed THEN @
                      ELSE Append(@, Head(ws_replay[ws]))]
    /\ ws_replay' = [ws_replay EXCEPT ![ws] = Tail(@)]
    /\ ws_pc' = [ws_pc EXCEPT ![ws] =
                   IF Tail(ws_replay[ws]) = <<>> THEN "connected"
                   ELSE "replaying"]
    /\ UNCHANGED <<active_connections, connection_metadata, message_sequence,
                   ws_buffer, ws_closed, events_started, bc_pc, bc_msg,
                   bc_todo, bc_copy, bc_disconnected, hb_sent,
                   heartbeat_tasks, hb_cancelled>>
    /\ UNCHANGED <<varsJM, revoked, varsSvc, varsJE, varsCK, varsAPI, varsMB,
                   varsOps>>

\* The client of a socket goes away: from now on send_text raises and
\* receive_text raises WebSocketDisconnect
ws_client_close(ws) ==
    /\ ws_pc[ws] # "new"
    /\ ws \notin ws_closed
    /\ ws_closed' = ws_closed \cup {ws}
    /\ UNCHANGED <<active_connections, connection_metadata, message_sequence,
                   ws_buffer, ws_pc, ws_replay, received, events_started,
                   bc_pc, bc_msg, bc_todo, bc_copy, bc_disconnected, hb_sent,
                   heartbeat_tasks, hb_cancelled>>
    /\ UNCHANGED <<varsJM, revoked, varsSvc, varsJE, varsCK, varsAPI, varsMB,
                   varsOps>>

\* websocket_endpoint: receive_text raised, "finally: manager.disconnect"
ws_endpoint_disconnect(ws) ==
    /\ ws_pc[ws] = "connected"
    /\ ws \in ws_closed
    /\ set_manager(disconnect(ManagerState, ws))
    /\ ws_pc' = [ws_pc EXCEPT ![ws] = "closed"]
    /\ UNCHANGED <<ws_buffer, ws_replay, ws_closed, received, events_started,
                   bc_pc, bc_msg, bc_todo, bc_copy, bc_disconnected, hb_sent>>
    /\ UNCHANGED <<varsJM, revoked, varsSvc, varsJE, varsCK, varsAPI, varsMB,
                   varsOps>>

\* _heartbeat_loop: one round of the loop of a socket still in
\* connection_metadata (its task is cancelled by disconnect)
heartbeat_loop(ws) ==
    /\ ws \in DOMAIN connection_metadata
    /\ ws \notin hb_cancelled
    /\ hb_sent < MaxHeartbeats
    /\ hb_sent' = hb_sent + 1
    /\ LET sent_ == send_message(ManagerState, ws, "heartbeat")
       IN /\ set_manager(sent_.st)
          /\ received' = [received EXCEPT ![ws] = @ \o sent_.delivered]
    /\ UNCHANGED <<ws_buffer, ws_pc, ws_replay, ws_closed, events_started,
                   bc_pc, bc_msg, bc_todo, bc_copy, bc_disconnected>>
    /\ UNCHANGED <<varsJM, revoked, varsSvc, varsJE, varsCK, varsAPI, varsMB,
                   varsOps>>

\* The loop over the copy goes on with the other sockets whatever the send
\* did, except that a failure ends it
remaining_after_abort(todo, ws, ok) == IF ok THEN todo \ {ws} ELSE {}

\* broadcast_to_job: the try/except is inside the loop over the copy, so
\* after a send, failed or not, the loop goes on with the other sockets
remaining_after(todo, ws, ok) == todo \ {ws}

\* broadcast_to_job: "await websocket.send_text" to one socket of the copy
broadcast_send_one(e, message, todo, failed) ==
    \E ws \in todo :
      LET ok == ws \notin ws_closed IN
      /\ received' = [received EXCEPT ![ws] =
                        IF ok THEN Append(@, message) ELSE @]
      /\ bc_disconnected' = [bc_disconnected EXCEPT ![e] =
                               IF ok THEN failed ELSE Append(failed, ws)]
      /\ bc_todo' = [bc_todo EXCEPT ![e] = remaining_after(todo, ws, ok)]

\* broadcast_to_job up to its first await: with no connection the message
\* is only buffered; otherwise it is numbered and sent to a first socket
broadcast_to_job(e) ==
    /\ e = events_started + 1
    /\ events_started' = e
    /\ IF WsJob \notin DOMAIN active_connections
       THEN /\ bc_msg' = [bc_msg EXCEPT ![e] = Message("event", e, None)]
            /\ ws_buffer' = lpush(ws_buffer, bc_msg'[e])
            /\ bc_pc' = [bc_pc EXCEPT ![e] = "ltrim"]
            /\ UNCHANGED <<message_sequence, received, bc_todo, bc_copy,
                           bc_disconnected>>
       ELSE /\ message_sequence' =
                 SetKey(message_sequence, WsJob, message_sequence[WsJob] + 1)
            /\ bc_msg' = [bc_msg EXCEPT ![e] =
                            Message("event", e,
                                    Some(message_sequence'[WsJob]))]
            /\ bc_copy' = [bc_copy EXCEPT ![e] = active_connections[WsJob]]
            /\ broadcast_send_one(e, bc_msg'[e], bc_copy'[e], <<>>)
            /\ bc_pc' = [bc_pc EXCEPT ![e] = "sending"]
            /\ UNCHANGED ws_buffer
    /\ UNCHANGED <<active_connections, connection_metadata, ws_pc, ws_replay,
                   ws_closed, hb_sent,
                   heartbeat_tasks, hb_cancelled>>
    /\ UNCHANGED <<varsJM, revoked, varsSvc, varsJE, varsCK, varsAPI, varsMB,
                   varsOps>>

\* broadcast_to_job: the send to a further socket of the copy
broadcast_send(e) ==
    /\ bc_pc[e] = "sending"
    /\ bc_todo[e] # {}
    /\ broadcast_send_one(e, bc_msg[e], bc_todo[e], bc_disconnected[e])
    /\ UNCHANGED bc_copy
    /\ UNCHANGED <<active_connections, connection_metadata, message_sequence,
                   ws_buffer, ws_pc, ws_replay, ws_closed, events_started,
                   bc_pc, bc_msg, hb_sent,
                   heartbeat_tasks, hb_cancelled>>
    /\ UNCHANGED <<varsJM, revoked, varsSvc, varsJE, varsCK, varsAPI, varsMB,
                   varsOps>>

\* broadcast_to_job: the failed sockets are disconnected and the message is
\* pushed onto the buffer
broadcast_cleanup(e) ==
    /\ bc_pc[e] = "sending"
    /\ bc_todo[e] = {}
    /\ set_manager(disconnect_all(ManagerState, bc_disconnected[e]))
    /\ ws_buffer' = lpush(ws_buffer, bc_msg[e])
    /\ bc_pc' = [bc_pc EXCEPT ![e] = "ltrim"]
    /\ UNCHANGED <<ws_pc, ws_replay, ws_closed, received, events_started,
                   bc_msg, bc_todo, bc_copy, bc_disconnected, hb_sent>>
    /\ UNCHANGED <<varsJM, revoked, varsSvc, varsJE, varsCK, varsAPI, varsMB,
                   varsOps>>

\* _buffer_message: ltrim(key, 0, 99)
buffer_message_ltrim(e) ==
    /\ bc_pc[e] = "ltrim"
    /\ ws_buffer' = ltrim(ws_buffer, 0, BufferLimit - 1)
    /\ bc_pc' = [bc_pc EXCEPT ![e] = "done"]
    /\ UNCHANGED <<active_connections, connection_metadata, message_sequence,
                   ws_pc, ws_replay, ws_closed, received, events_started,
                   bc_msg, bc_todo, bc_copy, bc_disconnected, hb_sent,
                   heartbeat_tasks, hb_cancelled>>
    /\ UNCHANGED <<varsJM, revoked, varsSvc, varsJE, varsCK, varsAPI, varsMB,
                   varsOps>>

\* ------------------------------- JobManager.create_job and list_jobs
MaxListJobs == 3

ListIds == 1..MaxListJobs

\* the statuses update_job is called with by the worker and by cancel_job
UpdateStatuses == {"running", "completed", "failed", "cancelled"}

\* JobManager.create_job: a job with a new uuid4 is built and stored
create_job ==
    /\ next_job < MaxListJobs
    /\ LET job_id == next_job + 1 IN
       /\ next_job' = job_id
       /\ store' = store_job_record(job_id, NewJob)
       /\ job_list' = store_job_index(job_id)
    /\ UNCHANGED <<wpc, wargs, wsnap, wnext, last_progress, output_lines,
                   r_outcome, cpc, csnap, cancel_resp, revoked, list_resp>>
    /\ UNCHANGED <<batch_metadata, batch_jobs, batch_resp, delete_resp,
                   clear_resp>>
    /\ UNCHANGED varsRest
    /\ UNCHANGED <<varsSvc, varsJE, varsCK, varsAPI, varsWS, varsMB>>

\* JobManager.update_job with a status: the job is read, changed and
\* stored, which moves it to the newest score of the sorted set
update_job(j) ==
    /\ get_job(j) # None
    /\ \E status \in UpdateStatuses :
         /\ store[j].status # status
         /\ store' = store_job_record(
                        j, update_fields(store[j],
                                         Kwargs(Some(status), None, None,
                                                None, None)))
    /\ job_list' = store_job_index(j)
    /\ UNCHANGED <<next_job, wpc, wargs, wsnap, wnext, last_progress,
                   output_lines, r_outcome, cpc, csnap, cancel_resp, revoked,
                   list_resp>>
    /\ UNCHANGED <<batch_metadata, batch_jobs, batch_resp, delete_resp,
                   clear_resp>>
    /\ UNCHANGED varsRest
    /\ UNCHANGED <<varsSvc, varsJE, varsCK, varsAPI, varsWS, varsMB>>

\* Redis ZREVRANGE start stop on the sorted set: highest score first
zrevrange(zset, start, stop) ==
    SubSeq(reversed(zset), start + 1, Min(Len(zset), stop + 1))

\* JobManager.list_jobs: the newest `limit` ids are read, then each job is
\* fetched and kept when it matches the filter
list_jobs_result(limit, status_filter) ==
    LET job_ids == zrevrange(job_list, 0, limit - 1)
        jobs == SelectSeq(job_ids,
                          LAMBDA id : /\ get_job(id) # None
                                      /\ \/ status_filter = None
                                         \/ store[id].status = status_filter[1])
    IN SubSeq(jobs, 1, Min(limit, Len(jobs)))

list_jobs ==
    /\ \E limit \in 1..MaxListJobs,
          status_filter \in {None} \cup {Some(st) : st \in {"pending"} \cup UpdateStatuses} :
         list_resp' = Some([limit |-> limit, status_filter |-> status_filter,
                            jobs |-> list_jobs_result(limit, status_filter)])
    /\ UNCHANGED <<batch_metadata, batch_jobs, batch_resp, delete_resp,
                   clear_resp>>
    /\ UNCHANGED varsRest
    /\ UNCHANGED <<varsJM, revoked, varsSvc, varsJE, varsCK, varsAPI, varsWS,
                   varsMB>>

\* ------------------- JobManager: update_job, cleanup_old_jobs, delete_job
\* cleanup_old_jobs calls made
MaxSweeps == 1

\* JobManager.update_job, first half: get_job and "Update fields"; the
\* changed object is held by the caller until _store_job
update_job_read(j) ==
    /\ uj_job[j] = None
    /\ get_job(j) # None
    /\ \E status \in UpdateStatuses :
         /\ store[j].status # status
         /\ uj_job' = [uj_job EXCEPT ![j] =
                         Some(update_fields(store[j],
                                            Kwargs(Some(status), None, None,
                                                   None, None)))]
    /\ UNCHANGED <<sweep_pc, old_job_ids, stale, sweeps, jm_deleted>>
    /\ UNCHANGED <<batch_metadata, batch_jobs, batch_resp, delete_resp,
                   clear_resp, list_resp>>
    /\ UNCHANGED varsPS
    /\ UNCHANGED <<varsJM, revoked, varsSvc, varsJE, varsCK, varsAPI, varsWS,
                   varsMB>>

\* JobManager.update_job, second half: _store_job SETs the record and ZADDs
\* the id with the timestamp of now, which is above any sweep's cutoff
update_job_store(j) ==
    /\ uj_job[j] # None
    /\ store' = store_job_record(j, uj_job[j][1])
    /\ job_list' = store_job_index(j)
    /\ stale' = stale \ {j}
    /\ uj_job' = [uj_job EXCEPT ![j] = None]
    /\ UNCHANGED <<sweep_pc, old_job_ids, sweeps, jm_deleted>>
    /\ UNCHANGED <<next_job, wpc, wargs, wsnap, wnext, last_progress,
                   output_lines, r_outcome, cpc, csnap, cancel_resp, revoked>>
    /\ UNCHANGED <<batch_metadata, batch_jobs, batch_resp, delete_resp,
                   clear_resp, list_resp>>
    /\ UNCHANGED varsPS
    /\ UNCHANGED <<varsSvc, varsJE, varsCK, varsAPI, varsWS, varsMB>>

\* Redis ZRANGEBYSCORE -inf cutoff: the ids at or below the cutoff are the
\* k oldest of the sorted set, for the k the cutoff falls after
zrangebyscore(zset, k) == {zset[i] : i \in 1..k}

\* cleanup_old_jobs, "Get old job IDs"; without old ids nothing more is done
cleanup_old_jobs_read ==
    /\ sweeps < MaxSweeps
    /\ sweep_pc = "idle"
    /\ sweeps' = sweeps + 1
    /\ \E k \in 0..Len(job_list) :
         /\ old_job_ids' = zrangebyscore(job_list, k)
         /\ stale' = zrangebyscore(job_list, k)
         /\ sweep_pc' = IF k = 0 THEN "done" ELSE "delete"
    /\ UNCHANGED <<uj_job, jm_deleted>>
    /\ UNCHANGED <<batch_metadata, batch_jobs, batch_resp, delete_resp,
                   clear_resp, list_resp>>
    /\ UNCHANGED varsPS
    /\ UNCHANGED <<varsJM, revoked, varsSvc, varsJE, varsCK, varsAPI, varsWS,
                   varsMB>>

\* Redis ZREMRANGEBYSCORE -inf cutoff on the sorted set as it is now
zremrangebyscore(zset) == SelectSeq(zset, LAMBDA id : id \notin stale)

\* the records left after DEL of the key of every id in ids
delete_keys(ids) == [id \in DOMAIN store \ ids |-> store[id]]

\* cleanup_old_jobs, "Delete job data and remove from sorted set": one
\* MULTI/EXEC with a DEL per id read before and the ZREMRANGEBYSCORE
cleanup_old_jobs_execute ==
    /\ sweep_pc = "delete"
    /\ store' = delete_keys(old_job_ids)
    /\ job_list' = zremrangebyscore(job_list)
    /\ sweep_pc' = "done"
    /\ UNCHANGED <<uj_job, old_job_ids, stale, sweeps, jm_deleted>>
    /\ UNCHANGED <<next_job, wpc, wargs, wsnap, wnext, last_progress,
                   output_lines, r_outcome, cpc, csnap, cancel_resp, revoked>>
    /\ UNCHANGED <<batch_metadata, batch_jobs, batch_resp, delete_resp,
                   clear_resp, list_resp>>
    /\ UNCHANGED varsPS
    /\ UNCHANGED <<varsSvc, varsJE, varsCK, varsAPI, varsWS, varsMB>>

\* JobManager.delete_job: DEL of the record and ZREM of the id in one
\* MULTI/EXEC; True when the record existed
delete_job(j) ==
    /\ j <= next_job
    /\ j \notin jm_deleted
    /\ jm_deleted' = IF get_job(j) # None THEN jm_deleted \cup {j}
                     ELSE jm_deleted
    /\ store' = delete_keys({j})
    /\ job_list' = SelectSeq(job_list, LAMBDA id : id # j)
    /\ UNCHANGED <<uj_job, sweep_pc, old_job_ids, stale, sweeps>>
    /\ UNCHANGED <<next_job, wpc, wargs, wsnap, wnext, last_progress,
                   output_lines, r_outcome, cpc, csnap, cancel_resp, revoked>>
    /\ UNCHANGED <<batch_metadata, batch_jobs, batch_resp, delete_resp,
                   clear_resp, list_resp>>
    /\ UNCHANGED varsPS
    /\ UNCHANGED <<varsSvc, varsJE, varsCK, varsAPI, varsWS, varsMB>>

InitSweep ==
    /\ uj_job = [j \in ListIds |-> None]
    /\ sweep_pc = "idle"
    /\ old_job_ids = {}
    /\ stale = {}
    /\ sweeps = 0
    /\ jm_deleted = {}

\* --------------------------------------------------------- redis_pubsub.py
\* Messages handed to RedisPublisher._publish_message for the job
MaxPubMessages == 3

PubMessages == 1..MaxPubMessages

\* The channels of the job a publish_* method names (of logs, progress,
\* status, results, errors)
PsChannels == {"logs", "status"}

\* subscribe_to_job: its list patterns, in order; the last is job:<id>:all
PsPatterns == <<"logs", "status", "all">>

\* the patterns that have a pubsub connection and a listening task
Subscribed == {PsPatterns[i] : i \in 1..ps_subscribed}

\* Redis PUBLISH: the message reaches the connection subscribed to the
\* channel, if there is one
publish(queue, channel, m) ==
    IF channel \in Subscribed
    THEN [queue EXCEPT ![channel] = Append(@, m)] ELSE queue

\* subscribe_to_job: subscribe_to_pattern for the next pattern of the list
subscribe_to_pattern ==
    /\ ps_subscribed < Len(PsPatterns)
    /\ ps_subscribed' = ps_subscribed + 1
    /\ UNCHANGED <<ps_next, ps_pc, ps_cur, ps_registered, ps_queue, ps_handled,
                   ps_failed>>
    /\ UNCHANGED <<batch_metadata, batch_jobs, batch_resp, delete_resp,
                   clear_resp, list_resp, varsSweep>>
    /\ UNCHANGED <<varsJM, revoked, varsSvc, varsJE, varsCK, varsAPI, varsWS,
                   varsMB>>

\* _publish_message, "Publish to specific channel"; a failing publish goes
\* to _store_failed_message and the general channel is skipped
publish_message_channel ==
    /\ ps_pc = "idle"
    /\ ps_next < MaxPubMessages
    /\ ps_next' = ps_next + 1
    /\ \E channel \in PsChannels, redis_ok \in BOOLEAN :
         LET m == ps_next + 1 IN
         /\ ps_registered' = IF ps_subscribed = Len(PsPatterns)
                             THEN ps_registered \cup {m} ELSE ps_registered
         /\ IF redis_ok
            THEN /\ ps_queue' = publish(ps_queue, channel, m)
                 /\ ps_cur' = m
                 /\ ps_pc' = "general"
                 /\ UNCHANGED ps_failed
            ELSE /\ ps_failed' = ps_failed \cup {m}
                 /\ UNCHANGED <<ps_queue, ps_cur, ps_pc>>
    /\ UNCHANGED <<ps_subscribed, ps_handled>>
    /\ UNCHANGED <<batch_metadata, batch_jobs, batch_resp, delete_resp,
                   clear_resp, list_resp, varsSweep>>
    /\ UNCHANGED <<varsJM, revoked, varsSvc, varsJE, varsCK, varsAPI, varsWS,
                   varsMB>>

\* _publish_message, "Also publish to general job channel"
publish_message_general ==
    /\ ps_pc = "general"
    /\ \E redis_ok \in BOOLEAN :
         IF redis_ok
         THEN /\ ps_queue' = publish(ps_queue, "all", ps_cur)
              /\ UNCHANGED ps_failed
         ELSE /\ ps_failed' = ps_failed \cup {ps_cur}
              /\ UNCHANGED ps_queue
    /\ ps_pc' = "idle"
    /\ UNCHANGED <<ps_subscribed, ps_next, ps_cur, ps_registered, ps_handled>>
    /\ UNCHANGED <<batch_metadata, batch_jobs, batch_resp, delete_resp,
                   clear_resp, list_resp, varsSweep>>
    /\ UNCHANGED <<varsJM, revoked, varsSvc, varsJE, varsCK, varsAPI, varsWS,
                   varsMB>>

\* _listen_to_channel of one pattern: the next message of its connection
\* is parsed and the pattern's handler is awaited with it
listen_to_channel(pattern) ==
    /\ ps_queue[pattern] # <<>>
    /\ ps_handled' = Append(ps_handled, Head(ps_queue[pattern]))
    /\ ps_queue' = [ps_queue EXCEPT ![pattern] = Tail(@)]
    /\ UNCHANGED <<ps_subscribed, ps_next, ps_pc, ps_cur, ps_registered,
                   ps_failed>>
    /\ UNCHANGED <<batch_metadata, batch_jobs, batch_resp, delete_resp,
                   clear_resp, list_resp, varsSweep>>
    /\ UNCHANGED <<varsJM, revoked, varsSvc, varsJE, varsCK, varsAPI, varsWS,
                   varsMB>>

InitPS ==
    /\ ps_subscribed = 0
    /\ ps_next = 0
    /\ ps_pc = "idle"
    /\ ps_cur = 0
    /\ ps_registered = {}
    /\ ps_queue = [pattern \in {"logs", "status", "all"} |-> <<>>]
    /\ ps_handled = <<>>
    /\ ps_failed = {}

\* ------------------------------------ ConnectionManager._buffer_message
\* The replay buffer alone, written by concurrent publishers (stdout and
\* stderr monitors of a job): LPUSH, then LTRIM 0..99 after an await.
MaxPublishes == 103
MaxPublishers == 2

Publishers == 1..MaxPublishers

buffer_message_lpush(c) ==
    /\ mb_pc[c] = "idle"
    /\ mb_published < MaxPublishes
    /\ mb_published' = mb_published + 1
    /\ ws_buffer' = lpush(ws_buffer, Message("event", mb_published', None))
    /\ mb_pc' = [mb_pc EXCEPT ![c] = "ltrim"]
    /\ UNCHANGED <<active_connections, connection_metadata, message_sequence,
                   ws_pc, ws_replay, ws_closed, received, events_started,
                   bc_pc, bc_msg, bc_todo, bc_copy, bc_disconnected, hb_sent,
                   heartbeat_tasks, hb_cancelled>>
    /\ UNCHANGED <<varsJM, revoked, varsSvc, varsJE, varsCK, varsAPI,
                   varsOps>>

buffer_message_trim(c) ==
    /\ mb_pc[c] = "ltrim"
    /\ ws_buffer' = ltrim(ws_buffer, 0, BufferLimit - 1)
    /\ mb_pc' = [mb_pc EXCEPT ![c] = "idle"]
    /\ UNCHANGED <<active_connections, connection_metadata, message_sequence,
                   ws_pc, ws_replay, ws_closed, received, events_started,
                   bc_pc, bc_msg, bc_todo, bc_copy, bc_disconnected, hb_sent,
                   heartbeat_tasks, hb_cancelled>>
    /\ UNCHANGED <<varsJM, revoked, varsSvc, varsJE, varsCK, varsAPI,
                   mb_published,
                   varsOps>>

InitMB ==
    /\ mb_pc = [c \in Publishers |-> "idle"]
    /\ mb_published = 0

\* ------------------------------------------------------ specification
InitJM ==
    /\ store = <<>>
    /\ job_list = <<>>
    /\ next_job = 0
    /\ wpc = [j \in JobIds |-> "none"]
    /\ wargs = [j \in JobIds |-> NoKwargs]
    /\ wsnap = [j \in JobIds |-> None]
    /\ wnext = [j \in JobIds |-> "none"]
    /\ last_progress = [j \in JobIds |-> 0]
    /\ output_lines = [j \in JobIds |-> <<>>]
    /\ r_outcome = [j \in JobIds |-> None]
    /\ cpc = [j \in JobIds |-> "idle"]
    /\ csnap = [j \in JobIds |-> None]
    /\ cancel_resp = [j \in JobIds |-> <<>>]
    /\ revoked = {}

InitSvc ==
    /\ svc_obj = <<>>
    /\ active_jobs = {}
    /\ job_history = <<>>
    /\ next_svc = 0
    /\ spc = [j \in SvcIds |-> "none"]
    /\ svc_lines = [j \in SvcIds |-> 0]

InitJE ==
    /\ je_next = 0
    /\ job_metadata = <<>>
    /\ job_request = <<>>
    /\ job_progress = <<>>
    /\ job_logs = <<>>
    /\ job_result = <<>>
    /\ cache = <<>>
    /\ celery_state = [j \in JEIds |-> "PENDING"]
    /\ celery_ret = [j \in JEIds |-> None]
    /\ sent = [j \in JEIds |-> 0]
    /\ r_runs = [j \in JEIds |-> 0]
    /\ tpc = [j \in JEIds |-> "none"]
    /\ treq = <<>>
    /\ tmeta = [j \in JEIds |-> [started_at |-> FALSE, completed_at |-> FALSE]]
    /\ console = [j \in JEIds |-> 0]
    /\ jcpc = [j \in JEIds |-> "idle"]
    /\ jcmeta = [j \in JEIds |-> None]
    /\ je_cancel_resp = <<>>

InitCK ==
    /\ ck_a = None
    /\ ck_b = None

InitAPI ==
    /\ start_resp = [j \in JobIds |-> None]
    /\ status_resp = None

InitWS ==
    /\ active_connections = <<>>
    /\ connection_metadata = <<>>
    /\ message_sequence = <<>>
    /\ ws_buffer = <<>>
    /\ ws_pc = [ws \in Sockets |-> "new"]
    /\ ws_replay = [ws \in Sockets |-> <<>>]
    /\ ws_closed = {}
    /\ received = [ws \in Sockets |-> <<>>]
    /\ events_started = 0
    /\ bc_pc = [e \in Events |-> "idle"]
    /\ bc_msg = [e \in Events |-> Message("event", e, None)]
    /\ bc_copy = [e \in Events |-> {}]
    /\ bc_todo = [e \in Events |-> {}]
    /\ bc_disconnected = [e \in Events |-> <<>>]
    /\ hb_sent = 0
    /\ heartbeat_tasks = {}
    /\ hb_cancelled = {}

Init == InitJM /\ InitSvc /\ InitJE /\ InitCK /\ InitAPI /\ InitWS
        /\ InitMB /\ InitOps /\ InitSweep /\ InitPS

Next ==
    \/ start_async_calibration
    \/ \E j \in JobIds : calibration_task_start(j)
    \/ \E j \in JobIds : calibration_task_put(j)
    \/ \E j \in JobIds : calibration_task_check_r(j)
    \/ \E j \in JobIds : calibration_task_line(j)
    \/ \E j \in JobIds : calibration_task_exit(j)
    \/ \E j \in JobIds : cancel_job_check(j)
    \/ \E j \in JobIds : cancel_job_get(j)
    \/ \E j \in JobIds : cancel_job_put(j)

Spec == Init /\ [][Next]_vars

NextService ==
    \/ svc_create_job
    \/ \E j \in SvcIds : run_calibration_begin(j)
    \/ \E j \in SvcIds : run_calibration_prepare(j)
    \/ \E j \in SvcIds : run_calibration_launch(j)
    \/ \E j \in SvcIds : monitor_r_output(j)
    \/ \E j \in SvcIds : run_calibration_process(j)
    \/ \E j \in SvcIds : run_calibration_complete(j)
    \/ \E j \in SvcIds : run_calibration_finish(j)
    \/ \E j \in SvcIds : run_calibration_except(j)

SpecService == Init /\ [][NextService]_vars

NextEndpoints ==
    \/ create_calibration_job
    \/ \E j \in JEIds : task_start(j)
    \/ \E j \in JEIds : task_cache_check(j)
    \/ \E j \in JEIds : task_launch(j)
    \/ \E j \in JEIds : task_console_line(j)
    \/ \E j \in JEIds : task_exit(j)
    \/ \E j \in JEIds : task_revoked(j)
    \/ \E j \in JEIds : je_cancel_job_revoke(j)
    \/ \E j \in JEIds : je_cancel_job_store(j)
    \/ cache_expire

SpecEndpoints == Init /\ [][NextEndpoints]_vars

NextCacheKey ==
    \/ get_cache_key_first
    \/ get_cache_key_second

SpecCacheKey == Init /\ [][NextCacheKey]_vars

NextLookup ==
    \/ start_async_calibration
    \/ \E j \in JobIds : calibration_task_start(j)
    \/ \E j \in JobIds : calibration_task_put(j)
    \/ \E j \in JobIds : calibration_task_check_r(j)
    \/ \E j \in JobIds : calibration_task_line(j)
    \/ \E j \in JobIds : calibration_task_exit(j)
    \/ get_job_status

SpecLookup == Init /\ [][NextLookup]_vars

\* The worker and the API without any cancel request. The final
\* sync_update_job_status is a synchronous call that runs update_job to its
\* end, so a started update is eventually stored.
NextHappy ==
    \/ start_async_calibration
    \/ \E j \in JobIds : calibration_task_start(j)
    \/ \E j \in JobIds : calibration_task_put(j)
    \/ \E j \in JobIds : calibration_task_check_r(j)
    \/ \E j \in JobIds : calibration_task_line(j)
    \/ \E j \in JobIds : calibration_task_exit(j)

SpecHappy ==
    Init /\ [][NextHappy]_vars
         /\ WF_vars(\E j \in JobIds : calibration_task_put(j))

NextWebSocket ==
    \/ \E ws \in Sockets : ws_accept(ws)
    \/ \E ws \in Sockets : ws_register(ws)
    \/ \E ws \in Sockets : ws_lrange(ws)
    \/ \E ws \in Sockets : ws_replay_send(ws)
    \/ \E ws \in Sockets : ws_client_close(ws)
    \/ \E ws \in Sockets : ws_endpoint_disconnect(ws)
    \/ \E ws \in Sockets : heartbeat_loop(ws)
    \/ \E e \in Events : broadcast_to_job(e)
    \/ \E e \in Events : broadcast_send(e)
    \/ \E e \in Events : broadcast_cleanup(e)
    \/ \E e \in Events : buffer_message_ltrim(e)

SpecWebSocket == Init /\ [][NextWebSocket]_vars

NextMessageBuffer ==
    \/ \E c \in Publishers : buffer_message_lpush(c)
    \/ \E c \in Publishers : buffer_message_trim(c)

SpecMessageBuffer == Init /\ [][NextMessageBuffer]_vars

NextBatch ==
    \/ create_batch_jobs
    \/ \E j \in JEIds : task_start(j)
    \/ \E j \in JEIds : task_cache_check(j)
    \/ \E j \in JEIds : task_launch(j)
    \/ \E j \in JEIds : task_console_line(j)
    \/ \E j \in JEIds : task_exit(j)
    \/ \E j \in JEIds : task_worker_lost(j)
    \/ get_batch_status

SpecBatch == Init /\ [][NextBatch]_vars

NextBatchCancel ==
    \/ create_batch_jobs
    \/ \E j \in JEIds : task_start(j)
    \/ \E j \in JEIds : task_cache_check(j)
    \/ \E j \in JEIds : task_launch(j)
    \/ \E j \in JEIds : task_exit(j)
    \/ \E j \in JEIds : task_worker_lost(j)
    \/ \E j \in JEIds : je_cancel_job_revoke(j)
    \/ \E j \in JEIds : je_cancel_job_store(j)
    \/ \E j \in JEIds : task_revoked(j)
    \/ get_batch_status

SpecBatchCancel == Init /\ [][NextBatchCancel]_vars

NextDelete ==
    \/ create_calibration_job
    \/ \E j \in JEIds : task_start(j)
    \/ \E j \in JEIds : task_cache_check(j)
    \/ \E j \in JEIds : task_launch(j)
    \/ \E j \in JEIds : task_console_line(j)
    \/ \E j \in JEIds : task_exit(j)
    \/ \E j \in JEIds : task_revoked(j)
    \/ \E j \in JEIds : je_delete_job(j)

SpecDelete == Init /\ [][NextDelete]_vars

NextClearCache ==
    \/ create_calibration_job
    \/ \E j \in JEIds : task_start(j)
    \/ \E j \in JEIds : task_cache_check(j)
    \/ \E j \in JEIds : task_launch(j)
    \/ \E j \in JEIds : task_console_line(j)
    \/ \E j \in JEIds : task_exit(j)
    \/ je_clear_cache

SpecClearCache == Init /\ [][NextClearCache]_vars

NextList ==
    \/ create_job
    \/ \E j \in ListIds : update_job(j)
    \/ list_jobs

SpecList == Init /\ [][NextList]_vars

NextSweep ==
    \/ create_job
    \/ \E j \in ListIds : update_job_read(j)
    \/ \E j \in ListIds : update_job_store(j)
    \/ cleanup_old_jobs_read
    \/ cleanup_old_jobs_execute

SpecSweep == Init /\ [][NextSweep]_vars

NextJobDelete ==
    \/ create_job
    \/ \E j \in ListIds : update_job_read(j)
    \/ \E j \in ListIds : update_job_store(j)
    \/ \E j \in ListIds : delete_job(j)

SpecJobDelete == Init /\ [][NextJobDelete]_vars

NextPubSub ==
    \/ subscribe_to_pattern
    \/ publish_message_channel
    \/ publish_message_general
    \/ \E pattern \in {"logs", "status", "all"} : listen_to_channel(pattern)

SpecPubSub == Init /\ [][NextPubSub]_vars

\* ------------------------------------------------------------- claims
\* C1: once the stored status of a job is terminal (completed, failed,
\* cancelled), no later step changes its status, progress, result or error.
C1_TerminalImmutable ==
    [][\A j \in DOMAIN store :
         store[j].status \in Terminal =>
           /\ j \in DOMAIN store'
           /\ store'[j].status = store[j].status
           /\ store'[j].progress = store[j].progress
           /\ store'[j].result = store[j].result
           /\ store'[j].error = store[j].error]_vars

\* C2: in every stored state exactly one of result and error is set when
\* the status is terminal, and neither is set when it is pending or running.
C2_ExactlyOneOfResultError ==
    \A j \in DOMAIN store :
      IF store[j].status \in Terminal
      THEN (store[j].result # None) # (store[j].error # None)
      ELSE store[j].result = None /\ store[j].error = None

\* C3: from a non-terminal stored state, the next stored state of the job
\* never has a smaller progress, both for JobManager records and for
\* CalibrationService jobs.
C3_ProgressNonDecreasing ==
    [][/\ \A j \in DOMAIN store :
            (store[j].status \in NonTerminal /\ j \in DOMAIN store')
              => store'[j].progress >= store[j].progress
       /\ \A j \in DOMAIN svc_obj :
            svc_obj[j].status \in NonTerminal
              => svc_obj'[j].progress >= svc_obj[j].progress]_vars

\* C4: a stored job has progress 100 only if its status is completed.
C4_Progress100OnlyCompleted ==
    \A j \in DOMAIN store :
      store[j].progress = 100 => store[j].status = "completed"

\* C5: update_job calls on one job are serialized: every store of a job
\* record equals the call's fields written over the record stored just
\* before it, so the record is the result of applying the calls one after
\* the other and no field written by another call is lost.
C5_UpdatesSerialized ==
    [][\A j \in DOMAIN store :
         (j \in DOMAIN store' /\ store'[j] # store[j]) =>
           \/ /\ wpc[j] = "put" /\ wpc'[j] # "put"
              /\ store'[j] = update_fields(store[j], wargs[j])
           \/ /\ cpc[j] = "put" /\ cpc'[j] = "idle"
              /\ store'[j] = update_fields(store[j], cancel_kwargs)]_vars

\* C6: the first accepted cancel of a job leaves it cancelled, and every
\* cancel request answered after an accepted one is answered 400 and leaves
\* the store as it was.
C6_SecondCancelRejected ==
    [][\A j \in JobIds :
         Len(cancel_resp'[j]) = Len(cancel_resp[j]) + 1 =>
           LET code == cancel_resp'[j][Len(cancel_resp'[j])] IN
           IF \E i \in 1..Len(cancel_resp[j]) : cancel_resp[j][i] = 200
           THEN code = 400 /\ store' = store
           ELSE code = 200 => store'[j].status = "cancelled"]_vars

\* C7: once a cancel of a job was accepted, revocation of its task has been
\* requested from the dispatcher and the stored status reads cancelled.
C7_AcceptedCancelRevokesAndMarks ==
    \A j \in JobIds :
      (\E i \in 1..Len(cancel_resp[j]) : cancel_resp[j][i] = 200) =>
        /\ j \in revoked
        /\ j \in DOMAIN store
        /\ store[j].status = "cancelled"

\* A job whose stored result was served from the result cache.
CacheServed(j) ==
    j \in DOMAIN job_result /\ job_result[j].cache_info # None

C9_CacheHitResultAndProvenance ==
    \A b \in JEIds :
      CacheServed(b) =>
        LET s == job_result[b].cache_info[1].source_job_id IN
        /\ s \in JEIds /\ s # b
        /\ r_runs[s] = 1
        /\ celery_ret[s] = Some("success")
        /\ treq[s].use_cache
        /\ get_cache_key(treq[s]) = get_cache_key(treq[b])
        /\ s \in DOMAIN job_result =>
             /\ job_result[s].cache_info = None
             /\ job_result[s].payload = job_result[b].payload

\* C9 witness: a cache-served job next to a source job that holds the
\* second of the two possible result documents.
C9_Witness ==
    \E b \in JEIds :
      /\ CacheServed(b) /\ celery_ret[b] = Some("success")
      /\ job_result[b].cache_info[1].source_job_id \in DOMAIN job_result
      /\ job_result[b].payload = "run_b"

\* The step stores key k as the result and id of a job whose R run just
\* succeeded with caching enabled.
CacheWriter(k) ==
    \E j \in JEIds :
      /\ tpc[j] = "r_running" /\ tpc'[j] = "done"
      /\ treq[j].use_cache
      /\ celery_ret'[j] = Some("success")
      /\ j \in DOMAIN job_request /\ get_cache_key(job_request[j]) = k
      /\ j \in DOMAIN job_result'
      /\ job_result'[j].cache_info = None
      /\ cache'[k] = [result |-> job_result'[j], job_id |-> j]

\* C10 as stated: an entry is created only by a job that completed
\* successfully with caching enabled, and while it exists no step changes it.
C10_CacheEntryReadOnly ==
    [][\A k \in DOMAIN cache' :
         IF k \in DOMAIN cache THEN cache'[k] = cache[k]
         ELSE CacheWriter(k)]_vars

\* C10 amended: an entry is created or replaced only by a job whose R run
\* just succeeded with caching enabled, and then holds that job's result and
\* id; no cache-hit, failed or use_cache=false job writes the cache.
C10_CacheWrittenOnlyBySuccessfulCachingJob ==
    [][\A k \in DOMAIN cache' :
         (k \notin DOMAIN cache \/ cache'[k] # cache[k]) => CacheWriter(k)]_vars

\* C10 witness: the entry of a fingerprint names one job while another job
\* of the same fingerprint also ran R successfully with caching enabled.
C10_Witness ==
    \E k \in DOMAIN cache, j \in JEIds :
      /\ cache[k].job_id # j
      /\ r_runs[j] = 1 /\ r_runs[cache[k].job_id] = 1
      /\ treq[j].use_cache /\ get_cache_key(treq[j]) = k
      /\ celery_ret[j] = Some("success")
      /\ j \in DOMAIN job_result /\ job_result[j].cache_info = None

\* Two Python dicts are equal: the same keys with the same values
DictEq(x, y) ==
    {x[i] : i \in 1..Len(x)} = {y[i] : i \in 1..Len(y)}

\* Two requests agree on the five semantic input fields
SameSemantics(a, b) ==
    /\ DictEq(a.va_data, b.va_data)
    /\ a.age_group = b.age_group /\ a.country = b.country
    /\ a.mmat_type = b.mmat_type /\ a.ensemble = b.ensemble

\* C11: two requests get the same cache key exactly when their semantic
\* fields (va_data, age_group, country, mmat_type, ensemble) are equal,
\* whatever the order of the dict items and the values of priority,
\* timeout_minutes and use_cache.
C11_FingerprintBySemanticFields ==
    (ck_a # None /\ ck_b # None) =>
        (ck_a[1].key = ck_b[1].key
           <=> SameSemantics(ck_a[1].request, ck_b[1].request))

\* C11 witness: one key for two requests that differ in the item order of
\* va_data and in every non-semantic field.
C11_Witness ==
    /\ ck_a # None /\ ck_b # None
    /\ ck_a[1].key = ck_b[1].key
    /\ ck_a[1].request.va_data # ck_b[1].request.va_data
    /\ ck_a[1].request.priority # ck_b[1].request.priority
    /\ ck_a[1].request.timeout_minutes # ck_b[1].request.timeout_minutes
    /\ ck_a[1].request.use_cache # ck_b[1].request.use_cache

\* C12: a job submitted with use_cache = false never reads the result cache
\* (its cache check always goes on to the R run, its result carries no
\* cache_info, and it succeeds only after one R run of its own) and never
\* writes it (no step of its task changes the cache, and no entry names it).
C12_NoCacheJobRunsFresh ==
    [][\A j \in DOMAIN treq :
         ~treq[j].use_cache =>
           /\ (tpc[j] = "cache_check" /\ tpc'[j] # "cache_check"
               /\ celery_state'[j] # "REVOKED") => tpc'[j] = "prepared"
           /\ tpc'[j] # tpc[j] => cache' = cache
           /\ j \in DOMAIN job_result' => job_result'[j].cache_info = None
           /\ celery_ret'[j] = Some("success") => r_runs'[j] = 1
           /\ \A k \in DOMAIN cache' : cache'[k].job_id # j]_vars

\* C12 witness: a use_cache = false job succeeded after its own R run while
\* the cache held another job's entry for its fingerprint.
C12_Witness ==
    \E j \in DOMAIN treq :
      /\ ~treq[j].use_cache
      /\ celery_ret[j] = Some("success") /\ r_runs[j] = 1
      /\ j \in DOMAIN job_result /\ job_result[j].cache_info = None
      /\ get_cache_key(treq[j]) \in DOMAIN cache
      /\ cache[get_cache_key(treq[j])].job_id # j

C14_BrokerDownPending503 ==
    [][\A j \in JobIds :
         (next_job' = j /\ next_job # j /\ wpc'[j] = "none") =>
           /\ j \in DOMAIN store' /\ store'[j].status = "pending"
           /\ start_resp'[j] = Some(503)]_vars

SeqsOf(ws) ==
    [i \in 1..Len(received[ws]) |-> received[ws][i].sequence]

\* A subscriber that registered before the first broadcast of the job and
\* is still connected
FullLifecycle(ws) ==
    /\ ws \in DOMAIN connection_metadata
    /\ connection_metadata[ws].connected_at = 0
    /\ ws \notin ws_closed

\* C16: a subscriber connected for the whole lifecycle of the job receives
\* strictly increasing sequence numbers, none of them twice.
C16_SequenceStrictlyIncreasing ==
    \A ws \in Sockets :
      FullLifecycle(ws) =>
        \A i, k \in 1..Len(received[ws]) :
          (i < k /\ SeqsOf(ws)[i] # None /\ SeqsOf(ws)[k] # None)
            => SeqsOf(ws)[i][1] < SeqsOf(ws)[k][1]

\* C17: for a connected subscriber, each numbered message it receives
\* carries the number right after that of the message received before it.
C17_SequenceGapFree ==
    \A ws \in DOMAIN connection_metadata :
      ws \notin ws_closed =>
        \A i \in 1..(Len(received[ws]) - 1) :
          (SeqsOf(ws)[i] # None /\ SeqsOf(ws)[i + 1] # None)
            => SeqsOf(ws)[i + 1][1] = SeqsOf(ws)[i][1] + 1

\* C18: a subscriber that registered after some broadcasts of the job
\* receives no event twice, and every event broadcast before it registered
\* (history) comes before every event broadcast after (live), oldest first.
C18_HistoryBeforeLiveNoDuplicates ==
    \A ws \in DOMAIN connection_metadata :
      connection_metadata[ws].connected_at >= 1 =>
        \A i, k \in 1..Len(received[ws]) :
          (i < k /\ received[ws][i].type = "event"
                 /\ received[ws][k].type = "event") =>
            /\ received[ws][i].id # received[ws][k].id
            /\ received[ws][k].id <= connection_metadata[ws].connected_at
                 => received[ws][i].id < received[ws][k].id

\* C19: when the send loop of a broadcast ends, every socket of its copy
\* whose send did not fail has received the message, and every socket whose
\* send failed (its client had gone) is removed from the manager.
C19_BroadcastFailureIsolated ==
    [][\A e \in Events :
         (bc_pc[e] = "sending" /\ bc_pc'[e] = "ltrim") =>
           \A ws \in bc_copy[e] :
             IF \E i \in 1..Len(bc_disconnected[e]) : bc_disconnected[e][i] = ws
             THEN /\ ws \in ws_closed
                  /\ ws \notin DOMAIN connection_metadata'
                  /\ WsJob \in DOMAIN active_connections'
                       => ws \notin active_connections'[WsJob]
             ELSE \E i \in 1..Len(received[ws]) :
                    received[ws][i] = bc_msg[e]]_vars

\* C19 witness: a broadcast to two sockets is over; the send to one failed
\* and that socket is gone from the manager, the other received the message.
C19_Witness ==
    \E e \in Events, bad, good \in Sockets :
      /\ bc_pc[e] = "done" /\ bc_copy[e] = {bad, good} /\ bad # good
      /\ bc_disconnected[e] = <<bad>>
      /\ bad \notin DOMAIN connection_metadata
      /\ good \in active_connections[WsJob]
      /\ \E i \in 1..Len(received[good]) : received[good][i] = bc_msg[e]

\* Callers of _buffer_message that pushed and have not trimmed yet
PendingTrims == {c \in Publishers : mb_pc[c] = "ltrim"}

Reported(j, kind) == r_outcome[j] # None /\ r_outcome[j][1].kind = kind

\* The step in which calibration_task stores its final update of job j
FinalUpdateStored(j) ==
    wpc[j] = "put" /\ wnext[j] = "done" /\ wpc'[j] = "done"

\* C22: when R leaves an error document with a message, the final update
\* of calibration_task stores the job as failed with exactly that message
\* as its error.
C22_ErrorDocumentFailsWithMessage ==
    [][\A j \in JobIds :
         (FinalUpdateStored(j) /\ Reported(j, "error_doc")) =>
           /\ store'[j].status = "failed"
           /\ store'[j].error = Some(r_outcome[j][1].doc)
           /\ store'[j].result = None]_vars

\* C22 witness: a task is over after an error document, the job is failed
\* and carries the document's message.
C22_Witness ==
    \E j \in JobIds :
      /\ wpc[j] = "done" /\ Reported(j, "error_doc")
      /\ r_outcome[j][1].doc = "no data"
      /\ store[j].status = "failed" /\ store[j].error = Some("no data")

\* C23: without a cancel request, a job whose R process left a success
\* document eventually is completed with progress 100 and the document as
\* its result.
C23_HappyPathCompletes ==
    \A j \in JobIds :
      Reported(j, "success") ~>
        /\ wpc[j] = "done"
        /\ store[j].status = "completed"
        /\ store[j].progress = 100
        /\ store[j].result = Some(r_outcome[j][1].doc)

\* C23 witness: R printed a progress line and left a success document, and
\* the job is completed at 100 with that document.
C23_Witness ==
    \E j \in JobIds :
      /\ wpc[j] = "done" /\ Reported(j, "success")
      /\ r_outcome[j][1].doc = "y7"
      /\ \E i \in 1..Len(output_lines[j]) :
           parse_r_output_line(output_lines[j][i])[1] = "progress"
      /\ store[j].status = "completed" /\ store[j].progress = 100
      /\ store[j].result = Some("y7")

\* C21: a job whose R process outlived its timeout (the task returned the
\* "timeout" dict) is reported by a status query with status timeout and
\* an error.
C21_TimeoutSeenByStatusQuery ==
    \A j \in JEIds :
      celery_ret[j] = Some("timeout") =>
        /\ je_get_job_status(j).status = Some("timeout")
        /\ je_get_job_status(j).error_details # None

\* The step in which get_batch_status answers with a batch status
BatchAnswered ==
    /\ batch_resp' # batch_resp
    /\ batch_resp'[1].code = 200

\* The members of the batch and their statuses as a status query maps them
Members == {batch_jobs[BatchId][i] : i \in 1..Len(batch_jobs[BatchId])}
MemberStatus(j) == map_celery_status(celery_state[j])
AllSucceeded == \A j \in Members : MemberStatus(j) = "success"
AnyFailed == \E j \in Members : MemberStatus(j) = "failed"
AnyRunning == \E j \in Members : MemberStatus(j) = "running"
AnyWaiting == \E j \in Members : MemberStatus(j) \notin {"success", "failed", "running"}
FailFast == batch_metadata[BatchId].fail_fast

\* C24 as stated: completed iff all members succeeded, failed iff fail_fast
\* and any member failed, running iff any member is running, otherwise
\* pending or partial.
C24_BatchStatusEachIff ==
    [][BatchAnswered =>
         LET status == batch_resp'[1].batch_status IN
         /\ status = "completed" <=> AllSucceeded
         /\ status = "failed" <=> (FailFast /\ AnyFailed)
         /\ status = "running" <=> AnyRunning
         /\ status \in {"completed", "failed", "running", "pending", "partial"}]_vars

\* C24, amended: the batch status is the first that applies of: completed
\* when all members succeeded, failed when fail_fast and a member failed,
\* running when a member is running, pending when a member is neither
\* succeeded, failed nor running, and partial otherwise; it is computed from
\* the members' current statuses and fail_fast.
C24_BatchStatusByPrecedence ==
    [][BatchAnswered =>
         LET status == batch_resp'[1].batch_status
             failed == FailFast /\ AnyFailed
             running == AnyRunning /\ ~failed
             pending == AnyWaiting /\ ~AllSucceeded /\ ~failed /\ ~running
         IN
         /\ status = "completed" <=> AllSucceeded
         /\ status = "failed" <=> failed
         /\ status = "running" <=> running
         /\ status = "pending" <=> pending
         /\ status = "partial" <=>
              (~AllSucceeded /\ ~failed /\ ~running /\ ~pending)
         /\ batch_resp'[1].job_statuses =
              [i \in 1..Len(batch_jobs[BatchId]) |->
                 MemberStatus(batch_jobs[BatchId][i])]]_vars

\* C24 witness: a fail_fast batch with a failed and a running member was
\* answered "failed".
C24_Witness ==
    /\ batch_resp # None /\ batch_resp[1].code = 200
    /\ batch_resp[1].batch_status = "failed"
    /\ batch_resp[1].running_jobs = 1 /\ batch_resp[1].failed_jobs = 1
    /\ FailFast /\ AnyFailed /\ AnyRunning

\* Members whose task is over, by how the calibration ended
Succeeded == {j \in Members : tpc[j] = "done" /\ celery_ret[j] = Some("success")}
Failed == {j \in Members : tpc[j] = "done" /\ celery_ret[j] # Some("success")}

\* C25: a batch without fail_fast whose members have all finished, some
\* succeeded and some failed, is answered partial, with completed_jobs the
\* number of succeeded and failed_jobs the number of failed members.
C25_MixedBatchIsPartial ==
    [][(/\ BatchAnswered
        /\ ~FailFast
        /\ Succeeded \cup Failed = Members
        /\ Succeeded # {} /\ Failed # {}) =>
          /\ batch_resp'[1].batch_status = "partial"
          /\ batch_resp'[1].completed_jobs = Cardinality(Succeeded)
          /\ batch_resp'[1].failed_jobs = Cardinality(Failed)]_vars

\* The step in which delete_job(j) returns successfully
DeleteReturned(j) ==
    /\ Len(delete_resp') = Len(delete_resp) + 1
    /\ delete_resp'[Len(delete_resp')].job_id = j
    /\ delete_resp'[Len(delete_resp')].code = 200

\* C26: when delete_job(j) returns successfully, none of the keys of j
\* (metadata, request, progress, logs, result) is left in the store.
C26_DeleteLeavesNoKey ==
    [][\A j \in JEIds :
         DeleteReturned(j) =>
           /\ j \notin DOMAIN job_metadata'
           /\ j \notin DOMAIN job_request'
           /\ j \notin DOMAIN job_progress'
           /\ j \notin DOMAIN job_result'
           /\ j \notin DOMAIN job_logs']_vars

\* The request whose result a cache entry holds matches a filter
MatchesFilter(k, filter) ==
    LET request == treq[cache[k].job_id] IN
    /\ filter.age_group = None \/ filter.age_group = Some(request.age_group)
    /\ filter.country = None \/ filter.country = Some(request.country)

\* C29: clear_cache with a filter removes exactly the cache entries that
\* match it and leaves the others in place; without a filter it removes
\* all of them.
C29_ClearRemovesExactlyMatching ==
    [][Len(clear_resp') = Len(clear_resp) + 1 =>
         LET filter == clear_resp'[Len(clear_resp')].filter IN
         /\ \A k \in DOMAIN cache :
              IF MatchesFilter(k, filter)
              THEN k \notin DOMAIN cache'
              ELSE k \in DOMAIN cache' /\ cache'[k] = cache[k]
         /\ DOMAIN cache' \subseteq DOMAIN cache]_vars

\* The task of job j is over and no cancel_job call for j is in progress:
\* a status query reports completed, failed or cancelled
JobTerminal(j) ==
    /\ tpc[j] = "done" /\ jcpc[j] = "idle"
    /\ map_celery_status(celery_state[j]) \in {"success", "failed", "cancelled"}

\* C30: cancel_job on a terminal job is rejected and changes nothing: no
\* revocation is issued, metadata and logs of the job stay as they are and
\* the call is not answered "cancelled".
C30_CancelTerminalRejected ==
    [][\A j \in JEIds :
         JobTerminal(j) =>
           /\ (j \in revoked') = (j \in revoked)
           /\ job_metadata'[j] = job_metadata[j]
           /\ job_logs'[j] = job_logs[j]
           /\ jcpc'[j] = "idle"]_vars

\* The jobs that match a filter, most recently updated first
Matching(status_filter) ==
    SelectSeq(reversed(job_list),
              LAMBDA id : \/ status_filter = None
                          \/ store[id].status = status_filter[1])

\* C27: list_jobs(limit, status_filter) returns the min(limit, number of
\* matching jobs) most recently updated jobs that match the filter, newest
\* first.
C27_ListNewestMatching ==
    [][(list_resp' # list_resp) =>
         LET call == list_resp'[1]
             matching == Matching(call.status_filter)
         IN call.jobs = SubSeq(matching, 1, Min(call.limit, Len(matching)))]_vars

\* C28: create_job stores, under an id no job had before, a record with
\* status pending, progress 0, no result and no error, and get_job finds
\* it when create_job has returned.
C28_CreatePersistsPendingJob ==
    [][next_job' = next_job + 1 =>
         /\ next_job' \notin DOMAIN store
         /\ next_job' \in DOMAIN store'
         /\ store'[next_job'].status = "pending"
         /\ store'[next_job'].progress = 0
         /\ store'[next_job'].result = None
         /\ store'[next_job'].error = None
         /\ \A j \in DOMAIN store : store'[j] = store[j]]_vars

\* C28 witness: a second job was created while the first had moved on; the
\* new one is pending at progress 0 and the first is as it was.
C28_Witness ==
    /\ next_job = 2
    /\ get_job(2) = Some(NewJob)
    /\ get_job(1) # None /\ store[1].status = "completed"
    /\ job_list = <<1, 2>>

\* C31: a job whose run ended in the "except Exception" branch (the R
\* script reported an error, left no output, or something raised) is
\* reported by a status query as failed with an error message.
C31_FailedRunSeenByStatusQuery ==
    \A j \in JEIds :
      (tpc[j] = "done" /\ celery_ret[j] = Some("failed")
         /\ get_job_metadata(j) # None) =>
        /\ je_get_job_status(j).status = Some("failed")
        /\ je_get_job_status(j).error_details # None

\* C39: the status query, _map_celery_status and the listing give every
\* job with metadata the same status.
C39_OneStatusPerCeleryState ==
    \A j \in JEIds :
      get_job_metadata(j) # None =>
        /\ je_get_job_status(j).status = Some(map_celery_status(celery_state[j]))
        /\ je_get_job_status(j).status = Some(list_job_status(celery_state[j]))

\* C32: once calibration_task has handled a line (no update in flight),
\* the job's r_output holds every non-empty line the R process has printed
\* so far, in the order printed.
C32_EveryLineKept ==
    \A j \in JobIds :
      (wpc[j] \in {"loop", "done"} /\ j \in DOMAIN store) =>
        store[j].r_output = output_lines[j]

\* The step in which the sweep's deletions take effect
SweepExecuted == sweep_pc = "delete" /\ sweep_pc' = "done"

\* C33: when the sweep's deletions have run, no job at or below the cutoff
\* is left in the records or in the index, every job updated after the
\* cutoff still has its record and its index entry, and the index and the
\* records name the same jobs.
C33_SweepRemovesExactlyOld ==
    [][SweepExecuted =>
         /\ \A j \in stale :
              j \notin DOMAIN store' /\ \A i \in 1..Len(job_list') : job_list'[i] # j
         /\ \A j \in DOMAIN store \ stale :
              j \in DOMAIN store' /\ \E i \in 1..Len(job_list') : job_list'[i] = j
         /\ {job_list'[i] : i \in 1..Len(job_list')} = DOMAIN store']_vars

\* C34: a job whose delete_job returned True is not found by get_job
\* afterwards.
C34_DeletedStaysDeleted ==
    \A j \in jm_deleted : get_job(j) = None

\* C35: after run_calibration has finished for a job, successfully or with
\* a failure, get_job_status still returns the job's record with its final
\* status.
C35_TerminalJobQueryable ==
    \A j \in SvcIds :
      spc[j] = "done" =>
        /\ svc_get_job_status(j) # None
        /\ svc_get_job_status(j)[1].status \in {"completed", "failed"}

\* C36: the handler registered with subscribe_to_job is called with the
\* messages published after the registration in publish order and at most
\* once each: their positions in the sequence of calls ascend strictly.
C36_HandlerOncePerMessageInOrder ==
    \A i, k \in 1..Len(ps_handled) :
      (i < k /\ ps_handled[i] \in ps_registered
             /\ ps_handled[k] \in ps_registered) =>
        ps_handled[i] < ps_handled[k]

\* disconnect(ws) has completed: the endpoint's finally ran it, or the
\* socket was registered and a failed send or broadcast removed it
DisconnectDone(ws) ==
    \/ ws_pc[ws] = "closed"
    \/ ws_pc[ws] \notin {"new", "accepted"} /\ ws \notin DOMAIN connection_metadata

\* the sockets of all job entries
Connected == UNION {active_connections[job] : job \in DOMAIN active_connections}

\* the endpoint's disconnect of a socket that was disconnected before
RepeatedDisconnect ==
    \E ws \in Sockets :
      /\ ws_pc[ws] = "connected" /\ ws_pc'[ws] = "closed"
      /\ ws \notin DOMAIN connection_metadata

\* C37: once disconnect has completed for a socket, the socket is in none
\* of active_connections, connection_metadata and heartbeat_tasks and its
\* heartbeat task was cancelled; no job entry has an empty set; and a
\* second disconnect of the socket leaves the manager as it is.
C37_DisconnectCleansUp ==
    /\ [](\A ws \in Sockets :
            DisconnectDone(ws) =>
              /\ ws \notin Connected
              /\ ws \notin DOMAIN connection_metadata
              /\ ws \notin heartbeat_tasks
              /\ ws \in hb_cancelled)
    /\ [](\A job \in DOMAIN active_connections : active_connections[job] # {})
    /\ [][RepeatedDisconnect =>
            UNCHANGED <<active_connections, connection_metadata,
                        message_sequence, heartbeat_tasks, hb_cancelled>>]_vars

C37_Witness ==
    \E ws \in Sockets, other \in Sockets, e \in Events :
      /\ ws_pc[ws] = "closed" /\ ws \in hb_cancelled
      /\ \E i \in 1..Len(bc_disconnected[e]) : bc_disconnected[e][i] = ws
      /\ bc_pc[e] = "done"
      /\ other # ws /\ other \in Connected /\ other \in heartbeat_tasks

\* every member's task has ended: it succeeded, failed, timed out or was
\* revoked
AllMembersTerminal ==
    \A j \in Members : celery_state[j] \in {"SUCCESS", "FAILURE", "REVOKED"}

\* C38: a batch whose members have all ended is never reported as running
\* or pending.
C38_TerminalBatchStopsPolling ==
    [][(BatchAnswered /\ AllMembersTerminal) =>
         batch_resp'[1].batch_status \in {"completed", "failed", "partial"}]_vars

\* C40: for a stored job, get_job_output answers has_more true exactly when
\* the job is pending or running, whatever its output holds.
C40_HasMoreIffNotTerminal ==
    \A j \in DOMAIN store :
      get_job_output(j).has_more <=> store[j].status \in NonTerminal
====
